---------------------------- MODULE Spec2Model ----------------------------
(***************************************************************************)
(* Batch translation orchestration of srt-translator.                      *)
(*                                                                         *)
(*   - TranslationService.createBatches        (SpecBatches)               *)
(*   - TranslationService.processAIResponse    (SpecValidate)              *)
(*   - Translator.translateText                (SpecTranslator, and        *)
(*     FairSpecTranslator for termination)                                 *)
(*   - TranslationService.translateTexts with CacheService (Spec), and     *)
(*     with the cache off for termination (FairSpecUncached)               *)
(*   - processSubtitles of the command-line revision (SpecCli)             *)
(*   - either of the two programs translating a file (SpecJob)             *)
(*   - the worker pool processBatchesInParallel (SpecPool)                 *)
(*   - translateTexts over the per-text cache  (SpecUnit)                  *)
(*   - a CacheService object over a failing file system (SpecIo)           *)
(*   - SrtService.createTranslatedSubtitles    (SpecCreate)                *)
(*   - Srt.parseSrt                            (SpecParse)                 *)
(*   - SrtTranslator.batchProcess              (SpecFiles)                 *)
(*                                                                         *)
(* Texts are strings; text.length is Len.  A provider response body is a   *)
(* JSON value (tagged record) or raw non-JSON text (a sequence of lines).  *)
(***************************************************************************)
EXTENDS Integers, Sequences, FiniteSets, TLC

VARIABLES
  \* ---- createBatches(texts, maxBatchLength) call
  cbTexts,        \* argument texts
  cbMax,          \* argument maxBatchLength
  cbPc,           \* "call" | "returned"
  cbBatches       \* return value (string[][])

VARIABLES
  \* ---- processAIResponse / processResponseContent call
  vContent,       \* argument content (the provider's message content)
  vBatch,         \* the originating batch (options.fallbackData)
  vStrict,        \* options.strictLengthCheck
  vPc,            \* "call" | "returnedAI" | "returnedContent"
  vResult         \* outcome: a returned array or a thrown error

VARIABLES
  \* ---- Translator.translateText call (with its recursive re-invocations)
  ttSubtitles,    \* config.subtitles as subtitleMap: hash -> source text
  ttRetryCount,   \* config.retryCount of the running invocation
  ttPrevious,     \* config.previousTranslated of the running invocation
  ttPc,           \* "call" | "waiting" | "returned" | "thrown"
  ttRequest,      \* currentSubtitleMap of the request last sent
  ttResult,       \* the map the outermost call returned
  ttError,        \* the error the outermost call threw
  ttRequests      \* provider requests made so far

VARIABLES
  \* ---- TranslationService.translateTexts job, with its CacheService
  texts,                  \* argument texts
  maxBatchLength,         \* options.maxBatchLength
  concurrentRequests,     \* options.concurrentRequests
  terminologyOption,      \* options.terminology
  model,                  \* modelToUse
  cacheEnabled,           \* CacheService.enabled
  cacheFiles,             \* the api_<key>.json files: key -> stored response
  terminology,            \* this.terminology
  pc,                     \* position of translateTexts
  batches,                \* const batches
  systemPrompt,           \* const systemPrompt
  loopI,                  \* the group loop's i
  outstanding,            \* batch indices whose provider request is in flight
  groupResults,           \* settled callbacks of the current group: index -> translations
  results,                \* const results
  allTranslations,        \* the returned array
  completedBatches,       \* this.completedBatches
  totalBatches,           \* this.totalBatches
  cacheHits,              \* let cacheHits
  progressUpdateInterval, \* this.progressUpdateInterval is set
  \* history of the job, read by the properties only
  cacheOrigin,            \* key -> the request whose response the file holds
  sentCount,              \* batch index -> provider requests sent for it
  sentRequests,           \* the requests sent to the provider
  batchOutcome,           \* batch index -> how its callback ended
  servedFrom,             \* batch index -> the request whose cached response served it
  settleOrder,            \* batch indices in the order their callbacks ended
  runs,                   \* runs of the program over the same cache directory
  extractOutcome,         \* how terminology extraction ended in this run
  seed,                   \* the entries the caller gave to setTerminology in this run
  earlier,                \* how the provider calls of the earlier run ended
  extractSends            \* terminology extraction requests sent in this run

VARIABLES
  \* ---- processSubtitles, the command-line program built on Translator
  cliSubtitles,   \* srt.subtitles
  cliMaxLength,   \* config.maxLength
  cliConcurrency, \* config.concurrency
  cliPc,          \* position of processSubtitles
  cliBatches,     \* const batches
  cliI,           \* the i of the loop under way
  cliOutstanding, \* batch indices whose provider request is in flight
  cliGlossary,    \* let glossary
  cliCalls,       \* batch index -> arguments of its translateText call under way
  cliResults,     \* let results
  cliOutput,      \* the texts written to the output file
  \* history, read by the properties only
  cliSent,        \* the requests sent to the provider
  cliExtracted,   \* batch indices whose extracted glossary has been merged
  cliMerged,      \* the extraction results merged in the running extraction loop,
                  \* in the order of merging
  cliReturned     \* batch index -> how its translateText call ended

VARIABLES
  \* ---- translateBatchesParallel, the worker pool of the earlier revisions
  pBatches,       \* argument batches
  pConcurrent,    \* argument concurrentRequests
  pPc,            \* "idle" | "call" | "running" | "returned"
  pCurrent,       \* let currentBatchIndex
  pWorkers,       \* processor -> where its processBatch call stands
  pResults,       \* const results: batch index -> translated batch, holes left out
  pReturned,      \* the returned array, results.flat()
  \* history, read by the properties only
  pWriters,       \* batch index -> processors that assigned results[index]
  pSentTexts,     \* the texts sent to the provider by this call
  pSends          \* batch index -> translateBatch calls made for it by this call

VARIABLES
  \* ---- translateTexts of the revision with the per-text cache
  uTexts,         \* argument texts
  uMaxBatch,      \* options.maxBatchLength
  uConcurrent,    \* options.concurrentRequests
  uEnabled,       \* CacheService.enabled
  uFiles,         \* the <key>.txt files: key -> stored translation
  uPc,            \* "idle" | "call" | "pool" | "returned"
  uResults,       \* translationResults: index (from 0) -> translation, holes left out
  uToTranslate,   \* textsToTranslate
  uIndexMap,      \* indexMap
  uReturned,      \* the returned array
  \* history, read by the properties only
  uKnown,         \* text -> translations stored for it by earlier calls
  uCalls          \* calls of translateTexts made so far

VARIABLES
  \* ---- a CacheService object and its cache directory
  ioEnabled,      \* this.enabled
  ioDirExists,    \* whether the cache directory exists
  ioFiles,        \* the api_<key>.json files: key -> file content
  ioPc,           \* "new" | "ready"
  ioLast          \* the last call made on the object and how it ended

VARIABLES
  \* ---- one call of a function of the SRT library (Srt.parseSrt,
  \*      SrtService.createTranslatedSubtitles)
  srtArgs,        \* the arguments of the call
  srtPc,          \* "call" | "done"
  srtResult       \* how the call ended

VARIABLES
  \* ---- SrtTranslator.batchProcess
  bpFiles,        \* inputFiles.length
  bpMain,         \* position of batchProcess
  bpService,      \* this.translationService: the instance it refers to
  bpPc,           \* file -> position of its run call
  bpCreated,      \* file -> the instance its run call created
  bpUsed,         \* file -> the instance its run call translated with
  bpProcessed,    \* let processedCount
  bpExited        \* process.exit was called

cbVars == <<cbTexts, cbMax, cbPc, cbBatches>>
vVars == <<vContent, vBatch, vStrict, vPc, vResult>>

ttVars == <<ttSubtitles, ttRetryCount, ttPrevious, ttPc, ttRequest, ttResult, ttError, ttRequests>>

svcVars == <<texts, maxBatchLength, concurrentRequests, terminologyOption, model,
             cacheEnabled, cacheFiles, cacheOrigin, terminology, pc, batches, systemPrompt,
             loopI, outstanding, groupResults, results, allTranslations,
             completedBatches, totalBatches, cacheHits, progressUpdateInterval,
             sentCount, sentRequests, batchOutcome, servedFrom, settleOrder, runs,
             extractOutcome, seed, earlier, extractSends>>

cliVars == <<cliSubtitles, cliMaxLength, cliConcurrency, cliPc, cliBatches, cliI,
             cliOutstanding, cliGlossary, cliCalls, cliResults, cliOutput, cliSent,
             cliExtracted, cliMerged, cliReturned>>

pVars == <<pBatches, pConcurrent, pPc, pCurrent, pWorkers, pResults, pReturned, pWriters,
           pSentTexts, pSends>>

uVars == <<uTexts, uMaxBatch, uConcurrent, uEnabled, uFiles, uPc, uResults, uToTranslate,
           uIndexMap, uReturned, uKnown, uCalls>>

ioVars == <<ioEnabled, ioDirExists, ioFiles, ioPc, ioLast>>
srtVars == <<srtArgs, srtPc, srtResult>>
bpVars == <<bpFiles, bpMain, bpService, bpPc, bpCreated, bpUsed, bpProcessed, bpExited>>

vars == <<cbVars, vVars, ttVars, svcVars, cliVars, pVars, uVars, ioVars, srtVars, bpVars>>

(***************************************************************************)
(* Bounds of the model                                                     *)
(***************************************************************************)
\* longest texts argument of a createBatches call
MaxTexts == 4
\* largest maxBatchLength of a createBatches call
MaxBatchLen == 3

\* the subtitle texts the inputs are drawn from (lengths 0..3)
TextPool == {"", "a", "bb", "ccc"}

SeqsUpTo(S, n) == UNION {[1..k -> S] : k \in 0..n}

RECURSIVE SumLen(_)
SumLen(batch) == IF batch = << >> THEN 0 ELSE Len(Head(batch)) + SumLen(Tail(batch))

RECURSIVE Flat(_)
Flat(lists) == IF lists = << >> THEN << >> ELSE Head(lists) \o Flat(Tail(lists))

cbIdle == cbTexts = << >> /\ cbMax = 1 /\ cbPc = "idle" /\ cbBatches = << >>
vIdle == vContent = << >> /\ vBatch = << >> /\ vStrict = TRUE /\ vPc = "idle" /\ vResult = << >>
ttIdle ==
  /\ ttSubtitles = << >> /\ ttRetryCount = 0 /\ ttPrevious = << >> /\ ttPc = "idle"
  /\ ttRequest = << >> /\ ttResult = << >> /\ ttError = "" /\ ttRequests = 0
svcIdle ==
  /\ texts = << >> /\ maxBatchLength = 1 /\ concurrentRequests = 1
  /\ terminologyOption = FALSE /\ model = "" /\ cacheEnabled = FALSE
  /\ cacheFiles = << >> /\ cacheOrigin = << >> /\ terminology = << >> /\ pc = "idle"
  /\ batches = << >> /\ systemPrompt = << >> /\ loopI = 0 /\ outstanding = {}
  /\ groupResults = << >> /\ results = << >> /\ allTranslations = << >>
  /\ completedBatches = 0 /\ totalBatches = 0 /\ cacheHits = 0
  /\ progressUpdateInterval = FALSE /\ sentCount = << >> /\ sentRequests = {}
  /\ batchOutcome = << >> /\ servedFrom = << >> /\ settleOrder = << >> /\ runs = 0
  /\ extractOutcome = "none" /\ seed = << >> /\ earlier = "none" /\ extractSends = 0

pIdle ==
  /\ pBatches = << >> /\ pConcurrent = 1 /\ pPc = "idle" /\ pCurrent = 0
  /\ pWorkers = << >> /\ pResults = << >> /\ pReturned = << >> /\ pWriters = << >>
  /\ pSentTexts = {} /\ pSends = << >>

uIdle ==
  /\ uTexts = << >> /\ uMaxBatch = 1 /\ uConcurrent = 1 /\ uEnabled = FALSE
  /\ uFiles = << >> /\ uPc = "idle" /\ uResults = << >> /\ uToTranslate = << >>
  /\ uIndexMap = << >> /\ uReturned = << >> /\ uKnown = << >> /\ uCalls = 0

ioIdle ==
  /\ ioEnabled = FALSE /\ ioDirExists = FALSE /\ ioFiles = << >> /\ ioPc = "idle"
  /\ ioLast = << >>

srtIdle ==
  /\ srtArgs = << >> /\ srtPc = "idle" /\ srtResult = << >>

bpIdle ==
  /\ bpFiles = 0 /\ bpMain = "idle" /\ bpService = 0 /\ bpPc = << >>
  /\ bpCreated = << >> /\ bpUsed = << >> /\ bpProcessed = 0 /\ bpExited = FALSE

cliIdle ==
  /\ cliSubtitles = << >> /\ cliMaxLength = 1 /\ cliConcurrency = 1 /\ cliPc = "idle"
  /\ cliBatches = << >> /\ cliI = 0 /\ cliOutstanding = {} /\ cliGlossary = << >>
  /\ cliCalls = << >> /\ cliResults = << >> /\ cliOutput = << >> /\ cliSent = {}
  /\ cliExtracted = {} /\ cliMerged = << >> /\ cliReturned = << >>

(***************************************************************************)
(* JSON values as JSON.parse yields them, and the JavaScript operations    *)
(* processAIResponse applies to them                                       *)
(***************************************************************************)
JNull == [t |-> "null"]
JUndefined == [t |-> "undefined"]
JStr(s) == [t |-> "str", s |-> s]
JArr(items) == [t |-> "arr", items |-> items]
\* fields: a sequence of <<key, value>> in enumeration order
JObj(fields) == [t |-> "obj", fields |-> fields]
\* text that is not valid JSON, as its lines (split on "\n")
RawText(lines) == [t |-> "text", lines |-> lines]

\* a string[] seen as JSON values
AsJson(strings) == [n \in DOMAIN strings |-> JStr(strings[n])]

\* String(i) for the array indices 0, 1, 2, ...
IndexKeys == <<"0", "1", "2", "3", "4", "5", "6", "7", "8", "9">>
IsArrayIndex(key) == \E i \in DOMAIN IndexKeys : IndexKeys[i] = key
KeyIndex(key) == (CHOOSE i \in DOMAIN IndexKeys : IndexKeys[i] = key) - 1
\* !isNaN(Number(key)): the index keys and other numeric spellings
IsNumericKey(key) == IsArrayIndex(key) \/ key \in {"", "1.5", "-1", "1e3"}

\* the characters of the JSON strings the inputs are drawn from
CharsOf(s) ==
  CASE s = "" -> << >>
    [] s = "s" -> <<"s">>
    [] s = "t" -> <<"t">>
    [] s = "st" -> <<"s", "t">>
    [] OTHER -> <<s>>

RECURSIVE InsertByIndex(_, _)
InsertByIndex(sorted, f) ==
  IF sorted = << >> THEN <<f>>
  ELSE IF KeyIndex(f[1]) < KeyIndex(Head(sorted)[1]) THEN <<f>> \o sorted
  ELSE <<Head(sorted)>> \o InsertByIndex(Tail(sorted), f)

RECURSIVE SortIntegerKeys(_)
SortIntegerKeys(fields) ==
  IF fields = << >> THEN << >>
  ELSE InsertByIndex(SortIntegerKeys(Tail(fields)), Head(fields))

\* property order of a JavaScript object: integer keys ascending, then the
\* other keys in insertion order
OrdinaryOwnKeys(fields) ==
  SortIntegerKeys(SelectSeq(fields, LAMBDA f : IsArrayIndex(f[1])))
    \o SelectSeq(fields, LAMBDA f : ~IsArrayIndex(f[1]))

\* JSON.parse of valid JSON text whose members appear in the order `fields`
JsonParse(body) ==
  IF body.t = "obj" THEN JObj(OrdinaryOwnKeys(body.fields)) ELSE body

IsArray(v) == v.t = "arr"
Truthy(v) ==
  CASE v.t \in {"undefined", "null"} -> FALSE
    [] v.t = "str" -> v.s # ""
    [] OTHER -> TRUE

\* Object.keys(v), also the keys a for-in loop visits
ObjectKeys(v) ==
  CASE v.t = "obj" -> [i \in DOMAIN v.fields |-> v.fields[i][1]]
    [] v.t = "arr" -> [i \in DOMAIN v.items |-> IndexKeys[i]]
    [] v.t = "str" -> [i \in 1..Len(CharsOf(v.s)) |-> IndexKeys[i]]
    [] OTHER -> << >>

\* v[key] for v other than null
Get(v, key) ==
  CASE v.t = "obj" ->
         IF \E i \in DOMAIN v.fields : v.fields[i][1] = key
         THEN v.fields[CHOOSE i \in DOMAIN v.fields : v.fields[i][1] = key][2]
         ELSE JUndefined
    [] v.t = "arr" ->
         IF IsArrayIndex(key) /\ KeyIndex(key) < Len(v.items)
         THEN v.items[KeyIndex(key) + 1] ELSE JUndefined
    [] v.t = "str" ->
         IF IsArrayIndex(key) /\ KeyIndex(key) < Len(CharsOf(v.s))
         THEN JStr(CharsOf(v.s)[KeyIndex(key) + 1]) ELSE JUndefined
    [] OTHER -> JUndefined

(***************************************************************************)
(* TranslationService.cleanJsonContent, processAIResponse,                 *)
(* processResponseContent                                                  *)
(***************************************************************************)
Return(value) == [kind |-> "return", value |-> value, error |-> "", fellBack |-> FALSE]
Throw(error) == [kind |-> "throw", value |-> << >>, error |-> error, fellBack |-> FALSE]
Continue == [kind |-> "continue", value |-> << >>, error |-> "", fellBack |-> FALSE]

\* the first probe that returned or threw decides
RECURSIVE FirstOutcome(_)
FirstOutcome(probes) ==
  IF probes = << >> THEN Continue
  ELSE IF Head(probes).kind # "continue" THEN Head(probes)
  ELSE FirstOutcome(Tail(probes))

\* content: [fenced, body]; the code-fence markup around the body is removed
cleanJsonContent(content) == content.body

\* lines 585-607: the catch of JSON.parse
NonJsonProbe(cleaned, options) ==
  LET lines == SelectSeq(cleaned.lines, LAMBDA line : line # "")
      k == Len(options.fallbackData) IN
  IF Len(cleaned.lines) >= 2
  THEN IF options.strictLengthCheck /\ Len(lines) # k THEN Throw("LineCountMismatch")
       ELSE IF Len(lines) = k THEN Return(AsJson(lines))
       ELSE Throw("InvalidJson")
  ELSE Throw("InvalidJson")

\* (mutant) the length check of the expected key is skipped
ArrayKeyProbeUnchecked(parsedContent, key, options) ==
  LET result == Get(parsedContent, key) IN
  IF Truthy(result) /\ IsArray(result) THEN Return(result.items) ELSE Continue

\* lines 610-621 and 625-634: an array under the given key
ArrayKeyProbe(parsedContent, key, options) ==
  LET result == Get(parsedContent, key) IN
  IF Truthy(result) /\ IsArray(result)
  THEN IF options.strictLengthCheck /\ Len(result.items) # Len(options.fallbackData)
       THEN Throw("CountMismatch")
       ELSE Return(result.items)
  ELSE Continue

\* lines 624-635
AlternativeKeysProbe(parsedContent, options) ==
  FirstOutcome([i \in DOMAIN options.alternativeArrayKeys |->
                  ArrayKeyProbe(parsedContent, options.alternativeArrayKeys[i], options)])

\* lines 638-649
BareArrayProbe(parsedContent, options) ==
  LET k == Len(options.fallbackData) IN
  IF IsArray(parsedContent)
  THEN IF options.strictLengthCheck /\ Len(parsedContent.items) # k
       THEN Throw("ArrayLengthMismatch")
       ELSE IF k = 0 \/ Len(parsedContent.items) = k THEN Return(parsedContent.items)
       ELSE Continue
  ELSE Continue

\* lines 652-665
AnyArrayProbe(parsedContent, options) ==
  LET k == Len(options.fallbackData)
      keys == ObjectKeys(parsedContent)
      probe(key) ==
        LET result == Get(parsedContent, key) IN
        IF IsArray(result) /\ (k = 0 \/ Len(result.items) = k)
        THEN Return(result.items) ELSE Continue IN
  FirstOutcome([i \in DOMAIN keys |-> probe(keys[i])])

\* lines 668-680
NumericKeysProbe(parsedContent, options) ==
  LET k == Len(options.fallbackData)
      numericKeys == SelectSeq(ObjectKeys(parsedContent), IsNumericKey) IN
  IF Len(numericKeys) > 0
  THEN IF options.strictLengthCheck /\ Len(numericKeys) # k
       THEN Throw("NumericKeysMismatch")
       ELSE IF Len(numericKeys) = k
            THEN Return([i \in DOMAIN numericKeys |-> Get(parsedContent, numericKeys[i])])
            ELSE Continue
  ELSE Continue

\* lines 683-700
LastResort(options) ==
  IF options.strictLengthCheck THEN Throw("NoMatchingLength")
  ELSE Return(AsJson(options.fallbackData))

processAIResponse(content, options) ==
  LET cleaned == cleanJsonContent(content) IN
  IF cleaned.t = "text" THEN NonJsonProbe(cleaned, options)
  ELSE LET parsedContent == JsonParse(cleaned) IN
       IF parsedContent.t = "null" THEN Throw("TypeError")
       ELSE FirstOutcome(<<ArrayKeyProbe(parsedContent, options.expectedArrayKey, options),
                           AlternativeKeysProbe(parsedContent, options),
                           BareArrayProbe(parsedContent, options),
                           AnyArrayProbe(parsedContent, options),
                           NumericKeysProbe(parsedContent, options),
                           LastResort(options)>>)

\* lines 527-532: the options processResponseContent passes
ResponseOptions(batch, strict) ==
  [expectedArrayKey |-> "translations", alternativeArrayKeys |-> <<"terms">>,
   fallbackData |-> batch, strictLengthCheck |-> strict]

\* lines 524-556: any error ends in the catch, which returns the batch
processResponseContent(content, batch) ==
  LET result == processAIResponse(content, ResponseOptions(batch, TRUE)) IN
  IF result.kind = "return" /\ Len(result.value) = Len(batch)
  THEN result
  ELSE [Return(AsJson(batch)) EXCEPT !.fellBack = TRUE]

(***************************************************************************)
(* Provider message contents the calls are checked on                      *)
(***************************************************************************)
\* longest array in a response
MaxItems == 2
\* largest batch handed to the validator
MaxK == 2

ItemPool == {"x", "y"}
KeyPool == {"translations", "terms", "data", "0", "1", "7"}
Arrays == {JArr(AsJson(items)) : items \in SeqsUpTo(ItemPool, MaxItems)}
MemberValues == Arrays \cup {JStr("s"), JStr("t"), JNull}
Members == KeyPool \X MemberValues
Objects ==
  {JObj(<< >>)} \cup {JObj(<<f>>) : f \in Members}
    \cup {JObj(<<f, g>>) : <<f, g>> \in {m \in Members \X Members : m[1][1] # m[2][1]}}
RawTexts == {RawText(lines) : lines \in UNION {[1..n -> {"", "line"}] : n \in 1..(MaxItems + 1)}}
Bodies == Objects \cup Arrays \cup {JNull, JStr("st")} \cup RawTexts
Contents == [fenced : BOOLEAN, body : Bodies]
\* the batch of k texts a response is validated against
BatchOf(k) == [i \in 1..k |-> <<"a", "bb", "ccc", "a">>[i]]

InitValidate ==
  /\ cbIdle /\ ttIdle /\ svcIdle /\ cliIdle /\ pIdle /\ uIdle /\ ioIdle
  /\ srtIdle /\ bpIdle
  /\ vContent \in Contents
  /\ vBatch \in {BatchOf(k) : k \in 1..MaxK}
  /\ vStrict \in BOOLEAN
  /\ vPc = "call"
  /\ vResult = << >>

CallProcessAIResponse ==
  /\ vPc = "call"
  /\ vResult' = processAIResponse(vContent, ResponseOptions(vBatch, vStrict))
  /\ vPc' = "returnedAI"
  /\ UNCHANGED <<vContent, vBatch, vStrict>>
  /\ UNCHANGED <<cbVars, ttVars, svcVars, cliVars, pVars, uVars, ioVars, srtVars, bpVars>>

CallProcessResponseContent ==
  /\ vPc = "call"
  /\ vStrict
  /\ vResult' = processResponseContent(vContent, vBatch)
  /\ vPc' = "returnedContent"
  /\ UNCHANGED <<vContent, vBatch, vStrict>>
  /\ UNCHANGED <<cbVars, ttVars, svcVars, cliVars, pVars, uVars, ioVars, srtVars, bpVars>>

NextValidate == CallProcessAIResponse \/ CallProcessResponseContent

SpecValidate == InitValidate /\ [][NextValidate]_vars

\* C3: with strictLengthCheck on, processAIResponse for a batch of k texts
\* returns an array of exactly k items or throws, on every parse path.
C3_CountPreservation ==
  (vPc = "returnedAI" /\ vStrict) =>
    \/ vResult.kind = "throw"
    \/ vResult.kind = "return" /\ Len(vResult.value) = Len(vBatch)

\* a strict call returned k = 2 items from an object whose "translations"
\* is absent and that holds another array of a different length
C3_Witness ==
  /\ vPc = "returnedAI" /\ vStrict
  /\ vResult.kind = "return" /\ Len(vBatch) = 2
  /\ vContent.body.t = "obj"
  /\ \E i \in DOMAIN vContent.body.fields :
       /\ vContent.body.fields[i][2].t = "arr"
       /\ Len(vContent.body.fields[i][2].items) # 2

\* the parsed response of the call and its options
ParsedContent == JsonParse(cleanJsonContent(vContent))
CallOptions == ResponseOptions(vBatch, vStrict)
\* the array members other than "translations" that have one item per text
RightLengthCandidates ==
  {n \in DOMAIN ParsedContent.fields :
     /\ ParsedContent.fields[n][1] # "translations"
     /\ IsArray(ParsedContent.fields[n][2])
     /\ Len(ParsedContent.fields[n][2].items) = Len(vBatch)}

\* C26: when the parsed response has a "translations" array whose length
\* differs from the batch size and another array member of the right
\* length, processAIResponse returns such a right-length candidate.
C26_RightLengthCandidateWins ==
  (/\ vPc = "returnedAI"
   /\ ParsedContent.t = "obj"
   /\ IsArray(Get(ParsedContent, "translations"))
   /\ Len(Get(ParsedContent, "translations").items) # Len(vBatch)
   /\ RightLengthCandidates # {}) =>
    /\ vResult.kind = "return"
    /\ \E n \in RightLengthCandidates : vResult.value = ParsedContent.fields[n][2].items

\* the call got as far as the numeric-key probe, which returned a result
NumericProbeAccepted ==
  /\ vPc = "returnedAI"
  /\ ParsedContent.t \notin {"text", "null"}
  /\ ArrayKeyProbe(ParsedContent, "translations", CallOptions).kind = "continue"
  /\ AlternativeKeysProbe(ParsedContent, CallOptions).kind = "continue"
  /\ BareArrayProbe(ParsedContent, CallOptions).kind = "continue"
  /\ AnyArrayProbe(ParsedContent, CallOptions).kind = "continue"
  /\ NumericKeysProbe(ParsedContent, CallOptions).kind = "return"

\* C27: for a batch of k texts the numeric-key probe accepts only a
\* response whose numeric keys are exactly "0" .. "k-1", and returns its
\* values in index order.
C27_SequentialNumericKeys ==
  NumericProbeAccepted =>
    /\ {key \in {ObjectKeys(ParsedContent)[n] : n \in DOMAIN ObjectKeys(ParsedContent)} :
          IsNumericKey(key)}
         = {IndexKeys[n] : n \in 1..Len(vBatch)}
    /\ vResult.value = [n \in 1..Len(vBatch) |-> Get(ParsedContent, IndexKeys[n])]

\* C14 (as stated): when strict validation of the content fails (not
\* parseable, or no array of the batch's length), processResponseContent
\* ends with an error and does not return the batch's source strings.
C14_ValidationErrorSurfaces ==
  (vPc = "returnedContent"
     /\ processAIResponse(vContent, ResponseOptions(vBatch, TRUE)).kind = "throw") =>
    /\ vResult.kind = "throw"
    /\ vResult.value # AsJson(vBatch)

(***************************************************************************)
(* TranslationService.createBatches                                        *)
(***************************************************************************)
\* (mutant) the running total is compared against one more than the limit
FitsCurrentBatchOffByOne(currentBatch, currentBatchLength, text, maxLen) ==
  Len(currentBatch) = 0 \/ currentBatchLength + Len(text) <= maxLen + 1

\* line 905: the text joins the running batch
FitsCurrentBatch(currentBatch, currentBatchLength, text, maxLen) ==
  Len(currentBatch) = 0 \/ currentBatchLength + Len(text) <= maxLen

\* (mutant) the trailing batch is forgotten
PushLastBatchDropped(done, currentBatch) == done

\* lines 916-919: the last running batch is pushed when it is not empty
PushLastBatch(done, currentBatch) ==
  IF Len(currentBatch) > 0 THEN Append(done, currentBatch) ELSE done

RECURSIVE CreateBatchesLoop(_, _, _, _, _, _)
CreateBatchesLoop(textList, maxLen, idx, done, currentBatch, currentBatchLength) ==
  IF idx > Len(textList)
  THEN PushLastBatch(done, currentBatch)
  ELSE LET text == textList[idx] IN
       IF FitsCurrentBatch(currentBatch, currentBatchLength, text, maxLen)
       THEN CreateBatchesLoop(textList, maxLen, idx + 1, done,
                              Append(currentBatch, text), currentBatchLength + Len(text))
       ELSE CreateBatchesLoop(textList, maxLen, idx + 1, Append(done, currentBatch),
                              <<text>>, Len(text))

createBatches(textList, maxLen) ==
  CreateBatchesLoop(textList, maxLen, 1, << >>, << >>, 0)

InitBatches ==
  /\ vIdle /\ ttIdle /\ svcIdle /\ cliIdle /\ pIdle /\ uIdle /\ ioIdle
  /\ srtIdle /\ bpIdle
  /\ cbTexts \in SeqsUpTo(TextPool, MaxTexts)
  /\ cbMax \in 1..MaxBatchLen
  /\ cbPc = "call"
  /\ cbBatches = << >>

CallCreateBatches ==
  /\ cbPc = "call"
  /\ cbBatches' = createBatches(cbTexts, cbMax)
  /\ cbPc' = "returned"
  /\ UNCHANGED <<cbTexts, cbMax>>
  /\ UNCHANGED <<vVars, ttVars, svcVars, cliVars, pVars, uVars, ioVars, srtVars, bpVars>>

NextBatches == CallCreateBatches

SpecBatches == InitBatches /\ [][NextBatches]_vars

\* C4: concatenating the batches returned by createBatches, in order,
\* reproduces the input list exactly (nothing lost, duplicated or reordered).
C4_BatchCompleteness == cbPc = "returned" => Flat(cbBatches) = cbTexts

\* a call that split its input into several batches has returned
C4_Witness == cbPc = "returned" /\ Len(cbBatches) >= 3 /\ Len(cbTexts) >= 4

\* C5: every returned batch sums to at most maxBatchLength, unless it is one
\* text that alone exceeds maxBatchLength; an oversized text is always alone
\* in its batch, and no text is dropped or split.
C5_BatchBound ==
  cbPc = "returned" =>
    /\ \A b \in DOMAIN cbBatches :
         \/ SumLen(cbBatches[b]) <= cbMax
         \/ Len(cbBatches[b]) = 1 /\ Len(cbBatches[b][1]) > cbMax
    /\ \A b \in DOMAIN cbBatches : \A k \in DOMAIN cbBatches[b] :
         Len(cbBatches[b][k]) > cbMax => Len(cbBatches[b]) = 1
    /\ Len(Flat(cbBatches)) = Len(cbTexts)
    /\ \A i \in DOMAIN cbTexts : Flat(cbBatches)[i] = cbTexts[i]

\* an oversized text sits between texts that fit, and the call has returned
C5_Witness ==
  /\ cbPc = "returned"
  /\ Len(cbTexts) >= 3
  /\ \E i \in 2..(Len(cbTexts) - 1) :
       /\ Len(cbTexts[i]) > cbMax
       /\ Len(cbTexts[i - 1]) <= cbMax
       /\ Len(cbTexts[i + 1]) <= cbMax

(***************************************************************************)
(* Translator.translateText (src/lib/translate.ts)                         *)
(***************************************************************************)
\* line 169: a call re-invokes itself while retryCount is below this
MaxRetry == 3

HashPool == {"h1", "h2", "h3"}
\* keys a provider reply may carry: the hashes and one it made up
ReplyKeys == HashPool \cup {"zz"}
\* the text the provider gives in its reply to attempt number retryCount
ReplyText(retryCount) == <<"r0", "r1", "r2", "r3", "r4">>[retryCount + 1]

EmptyMap == << >>
Keys(map) == DOMAIN map
\* { ...a, ...b }
Spread(a, b) == [k \in Keys(a) \cup Keys(b) |-> IF k \in Keys(b) THEN b[k] ELSE a[k]]
Restrict(map, keys) == [k \in keys |-> map[k]]

\* (mutant) every hash counts as translated
validateNothingMissing(originalMap, translatedMap) == {}

\* lines 64-85: the hashes of originalMap that translatedMap lacks
validateAllSubtitlesTranslated(originalMap, translatedMap) ==
  {hash \in Keys(originalMap) : hash \notin Keys(translatedMap)}

\* (mutant) one more re-invocation is allowed
MayRetryOnceMore(retryCount) == retryCount <= MaxRetry

\* line 169: retryCount < 3
MayRetry(retryCount) == retryCount < MaxRetry

\* (mutant) every subtitle is sent again on a retry
currentSubtitleMapWhole(subtitleMap, retryCount, previousTranslated) == subtitleMap

\* lines 116-130: what is sent on this attempt
currentSubtitleMap(subtitleMap, retryCount, previousTranslated) ==
  IF retryCount > 0 /\ Cardinality(Keys(previousTranslated)) > 0
  THEN Restrict(subtitleMap, {hash \in Keys(subtitleMap) : hash \notin Keys(previousTranslated)})
  ELSE subtitleMap

InitTranslator ==
  /\ cbIdle /\ vIdle /\ svcIdle /\ cliIdle /\ pIdle /\ uIdle /\ ioIdle
  /\ srtIdle /\ bpIdle
  /\ ttSubtitles \in UNION {[H -> {"src"}] : H \in SUBSET HashPool}
  /\ ttRetryCount = 0
  /\ ttPrevious = EmptyMap
  /\ ttPc = "call"
  /\ ttRequest = EmptyMap
  /\ ttResult = EmptyMap
  /\ ttError = ""
  /\ ttRequests = 0

\* lines 132-135: nothing to send, the earlier result is returned
TtReturnPrevious ==
  /\ ttPc = "call"
  /\ Keys(currentSubtitleMap(ttSubtitles, ttRetryCount, ttPrevious)) = {}
  /\ ttResult' = ttPrevious
  /\ ttPc' = "returned"
  /\ UNCHANGED <<ttSubtitles, ttRetryCount, ttPrevious, ttRequest, ttError, ttRequests>>
  /\ UNCHANGED <<cbVars, vVars, svcVars, cliVars, pVars, uVars, ioVars, srtVars, bpVars>>

\* lines 137-152: the request is sent and the call suspends
TtSendRequest ==
  /\ ttPc = "call"
  /\ Keys(currentSubtitleMap(ttSubtitles, ttRetryCount, ttPrevious)) # {}
  /\ ttRequest' = currentSubtitleMap(ttSubtitles, ttRetryCount, ttPrevious)
  /\ ttRequests' = ttRequests + 1
  /\ ttPc' = "waiting"
  /\ UNCHANGED <<ttSubtitles, ttRetryCount, ttPrevious, ttResult, ttError>>
  /\ UNCHANGED <<cbVars, vVars, svcVars, cliVars, pVars, uVars, ioVars, srtVars, bpVars>>

\* lines 144, 191-194: the provider call rejects; the catch rethrows
TtProviderThrows ==
  /\ ttPc = "waiting"
  /\ ttPc' = "thrown"
  /\ ttError' = "ProviderTransportError"
  /\ UNCHANGED <<ttSubtitles, ttRetryCount, ttPrevious, ttRequest, ttResult, ttRequests>>
  /\ UNCHANGED <<cbVars, vVars, svcVars, cliVars, pVars, uVars, ioVars, srtVars, bpVars>>

\* lines 155-160: the completion is empty or is not JSON
TtBadCompletion ==
  /\ ttPc = "waiting"
  /\ ttPc' = "thrown"
  /\ ttError' \in {"EmptyCompletion", "SyntaxError"}
  /\ UNCHANGED <<ttSubtitles, ttRetryCount, ttPrevious, ttRequest, ttResult, ttRequests>>
  /\ UNCHANGED <<cbVars, vVars, svcVars, cliVars, pVars, uVars, ioVars, srtVars, bpVars>>

\* lines 160-190: a JSON completion with the members currentTranslatedMap
TtCompletion ==
  /\ ttPc = "waiting"
  /\ \E replied \in SUBSET ReplyKeys :
       LET currentTranslatedMap == [k \in replied |-> ReplyText(ttRetryCount)]
           translatedMap == Spread(ttPrevious, currentTranslatedMap)
           missingHashes == validateAllSubtitlesTranslated(ttSubtitles, translatedMap) IN
       IF Cardinality(missingHashes) > 0 /\ MayRetry(ttRetryCount)
       THEN /\ ttRetryCount' = ttRetryCount + 1
            /\ ttPrevious' = translatedMap
            /\ ttPc' = "call"
            /\ UNCHANGED <<ttResult, ttError>>
       ELSE IF Cardinality(missingHashes) > 0
       THEN /\ ttPc' = "thrown"
            /\ ttError' = "StillMissing"
            /\ UNCHANGED <<ttRetryCount, ttPrevious, ttResult>>
       ELSE /\ ttResult' = translatedMap
            /\ ttPc' = "returned"
            /\ UNCHANGED <<ttRetryCount, ttPrevious, ttError>>
  /\ UNCHANGED <<ttSubtitles, ttRequest, ttRequests>>
  /\ UNCHANGED <<cbVars, vVars, svcVars, cliVars, pVars, uVars, ioVars, srtVars, bpVars>>

NextTranslator ==
  \/ TtReturnPrevious
  \/ TtSendRequest
  \/ TtProviderThrows
  \/ TtBadCompletion
  \/ TtCompletion

SpecTranslator == InitTranslator /\ [][NextTranslator]_vars

\* every provider call settles: it resolves or it rejects
FairSpecTranslator == SpecTranslator /\ WF_vars(NextTranslator)

\* C37: a translation accepted for a hash in an earlier attempt is never
\* replaced by a later attempt: no step changes the value previousTranslated
\* holds for a hash, and the returned map carries that value, whatever keys
\* the later provider responses contain.
C37_AcceptedNeverReplaced ==
  [][\A hash \in Keys(ttPrevious) :
       /\ hash \in Keys(ttPrevious') => ttPrevious'[hash] = ttPrevious[hash]
       /\ ttPc' = "returned" => /\ hash \in Keys(ttResult')
                                /\ ttResult'[hash] = ttPrevious[hash]]_vars

\* C11: translateText re-invokes itself at most 3 times (at most 4 provider
\* requests), throws when hashes are still missing after the third retry,
\* and every call ends by returning or throwing.
C11_BoundedRetries ==
  /\ [](/\ ttRetryCount <= 3
        /\ ttRequests <= 4
        /\ ttError = "StillMissing" => ttRetryCount = 3 /\ ttRequests = 4)
  /\ <>(ttPc \in {"returned", "thrown"})

\* the call threw after its fourth request, with some hashes translated and
\* others still missing
C11_Witness ==
  /\ ttPc = "thrown"
  /\ ttError = "StillMissing"
  /\ ttRequests = 4
  /\ Keys(ttPrevious) \cap Keys(ttSubtitles) # {}

\* C24: a transport failure of the provider call inside translateText is
\* retried: the error reaches the caller only when the retry bound is used
\* up.
C24_TransportFailureRetried ==
  (ttPc = "thrown" /\ ttError = "ProviderTransportError") => ttRetryCount = MaxRetry

\* C30: on every retry of translateText the request sent to the provider
\* holds exactly the subtitles whose hash is not yet a key of
\* previousTranslated, each with its source text.
C30_RetrySendsMissingOnly ==
  (ttPc = "waiting" /\ ttRetryCount > 0) =>
    /\ Keys(ttRequest) = Keys(ttSubtitles) \ Keys(ttPrevious)
    /\ \A hash \in Keys(ttRequest) : ttRequest[hash] = ttSubtitles[hash]

\* a retry is under way for some of several subtitles, the others having
\* been translated before
C30_Witness ==
  /\ ttPc = "waiting"
  /\ ttRetryCount > 0
  /\ Keys(ttRequest) # {}
  /\ Keys(ttSubtitles) \cap Keys(ttPrevious) # {}
  /\ Cardinality(Keys(ttSubtitles)) = 3

\* C10: when translateText returns normally the returned map has a key for
\* every hash of the input subtitles; while a hash is missing the call
\* never ends by returning (after the last allowed attempt it throws).
C10_ResultTotal == ttPc = "returned" => Keys(ttSubtitles) \subseteq Keys(ttResult)

\* the call returned after at least one retry, with several subtitles
C10_Witness ==
  /\ ttPc = "returned"
  /\ ttRetryCount >= 2
  /\ Keys(ttPrevious) \cap Keys(ttSubtitles) # {}
  /\ Cardinality(Keys(ttSubtitles)) >= 2

(***************************************************************************)
(* CacheService: generateApiKey, getApiResponse, setApiResponse            *)
(***************************************************************************)
\* JSON.stringify(value, replacer) of an object, replacer an array of names:
\* only the properties named in the array are serialized, at every depth
PickKeys(object, replacer) == [k \in (DOMAIN object) \cap replacer |-> object[k]]

\* lines 60-67: the serialization that is digested.  The replacer is the
\* sorted list of the request's own top-level keys; it is applied to the
\* message objects and to response_format as well.  The md5 digest is taken
\* to be collision-free: the key is the serialization itself.
generateApiKey(requestParams) ==
  LET replacer == DOMAIN requestParams IN
  [messages |-> [n \in DOMAIN requestParams.messages |->
                   PickKeys(requestParams.messages[n], replacer)],
   model |-> requestParams.model,
   response_format |-> PickKeys(requestParams.response_format, replacer),
   temperature |-> requestParams.temperature]

\* null: no file for the key
NoResponse == [isNull |-> TRUE, content |-> [fenced |-> FALSE, body |-> [t |-> "none"]]]

\* (mutant) a lookup that never finds a file
getApiResponseMiss(enabled, files, requestParams) == NoResponse

\* lines 83-103
getApiResponse(enabled, files, requestParams) ==
  IF ~enabled THEN NoResponse
  ELSE IF generateApiKey(requestParams) \in DOMAIN files
       THEN files[generateApiKey(requestParams)]
       ELSE NoResponse

\* lines 110-125: the file of the key is (over)written
setApiResponse(enabled, files, requestParams, response) ==
  IF ~enabled THEN files
  ELSE (generateApiKey(requestParams) :> response) @@ files

(***************************************************************************)
(* Requests and provider replies                                           *)
(***************************************************************************)
TargetLanguage == "chinese"
SourceLanguage == "english"

ChatRequest(modelName, system, user) ==
  [model |-> modelName,
   messages |-> <<[role |-> "system", content |-> system], [role |-> "user", content |-> user]>>,
   temperature |-> "0.3",
   response_format |-> [type |-> "json_object"]]

\* lines 162-173: the request translateTexts builds for its cache check
LookupRequest(modelName, prompt, batch) ==
  ChatRequest(modelName, prompt, [template |-> "translateTexts", payload |-> batch])

\* lines 467-478: the request translateBatch looks up, sends and stores
BatchRequest(modelName, prompt, batch) ==
  ChatRequest(modelName, prompt, [template |-> "translateBatch", payload |-> batch])

\* lines 245-296: the terminology extraction request
ExtractRequest(modelName, allBatches) ==
  ChatRequest(modelName,
              [template |-> "extractAndTranslate", source |-> SourceLanguage,
               target |-> TargetLanguage],
              [template |-> "extract", payload |-> Flat(allBatches)])

\* response.choices[0]?.message.content
ContentOf(response) == response.content
\* if (content) / if (!content)
HasContent(response) == response.content.body.t \notin {"none", "null"}

Response(content) == [isNull |-> FALSE, content |-> content]
Plain(body) == [fenced |-> FALSE, body |-> body]
EmptyReply == Response(Plain([t |-> "none"]))
GarbageReply == Response(Plain(RawText(<<"Sorry, I cannot help with that.">>)))

TranslationOf(text) == "T:" \o text
\* the reply the provider is asked for
GoodReply(batch) ==
  Response(Plain(JObj(<< <<"translations",
                           JArr([n \in DOMAIN batch |-> JStr(TranslationOf(batch[n]))])>> >>)))
\* a reply that lacks the last translation
ShortReply(batch) ==
  Response(Plain(JObj(<< <<"translations",
                           JArr([n \in 1..(Len(batch) - 1) |-> JStr(TranslationOf(batch[n]))])>> >>)))
\* what the provider may answer a batch with: the reply asked for, a reply
\* the validator rejects, and a reply without content
TranslateReplies(batch) == {GoodReply(batch), ShortReply(batch), EmptyReply}

TermObject(original, translated) ==
  JObj(<< <<"original", JStr(original)>>, <<"translated", JStr(translated)>> >>)
TermReply(entries) == Response(Plain(JObj(<< <<"terminology", JArr(entries)>> >>)))
ExtractReplies ==
  {TermReply(<<TermObject("Tom", "TangMu")>>),
   TermReply(<<TermObject("Tom", "TangMu"), TermObject("Tom", "TaMu")>>),
   TermReply(<< >>), GarbageReply, EmptyReply}

(***************************************************************************)
(* TranslationService: terminology and system prompt                       *)
(***************************************************************************)
TermEntry(original, translated) == [original |-> original, translated |-> translated]
\* typeof entry === 'object' for a truthy entry
IsObjectType(v) == v.t \in {"obj", "arr"}
IsBlank(s) == s \in {"", " "}

\* lines 352-354
IsTermEntry(entry) ==
  /\ Truthy(entry) /\ IsObjectType(entry)
  /\ Truthy(Get(entry, "original")) /\ Truthy(Get(entry, "translated"))

\* lines 366-384 (withKeyValue) and 400-415: one entry of an alternative
\* array, or JNull when it has no usable pair
FormatTerm(entry, withKeyValue) ==
  LET keys == ObjectKeys(entry) IN
  IF Truthy(Get(entry, "original")) /\ Truthy(Get(entry, "translated"))
  THEN TermEntry(Get(entry, "original"), Get(entry, "translated"))
  ELSE IF Truthy(Get(entry, "source")) /\ Truthy(Get(entry, "target"))
  THEN TermEntry(Get(entry, "source"), Get(entry, "target"))
  ELSE IF Truthy(Get(entry, "term")) /\ Truthy(Get(entry, "translation"))
  THEN TermEntry(Get(entry, "term"), Get(entry, "translation"))
  ELSE IF withKeyValue /\ Truthy(Get(entry, "key")) /\ Truthy(Get(entry, "value"))
  THEN TermEntry(Get(entry, "key"), Get(entry, "value"))
  ELSE IF Len(keys) >= 2
  THEN TermEntry(Get(entry, keys[1]), Get(entry, keys[2]))
  ELSE TermEntry(JUndefined, JUndefined)

FormatTerms(items, withKeyValue) ==
  LET objects == SelectSeq(items, LAMBDA entry : Truthy(entry) /\ IsObjectType(entry))
      formatted == [n \in DOMAIN objects |-> FormatTerm(objects[n], withKeyValue)] IN
  SelectSeq(formatted, LAMBDA e : e # TermEntry(JUndefined, JUndefined))

\* lines 360-394: the first alternative key that yields terms
RECURSIVE AlternativeTerms(_, _)
AlternativeTerms(parsedContent, keys) ==
  IF keys = << >> THEN << >>
  ELSE LET candidate == Get(parsedContent, Head(keys))
           formattedTerms == IF Truthy(candidate) /\ IsArray(candidate)
                             THEN FormatTerms(candidate.items, TRUE) ELSE << >> IN
       IF Len(formattedTerms) > 0 THEN formattedTerms
       ELSE AlternativeTerms(parsedContent, Tail(keys))

\* lines 427-443
KeyValueTerms(parsedContent) ==
  IF parsedContent.t = "obj"
  THEN LET kept == SelectSeq(parsedContent.fields,
                             LAMBDA f : /\ f[1] # "terminology"
                                        /\ f[2].t = "str"
                                        /\ ~IsBlank(f[1]) /\ ~IsBlank(f[2].s)) IN
       [n \in DOMAIN kept |-> TermEntry(JStr(kept[n][1]), kept[n][2])]
  ELSE << >>

\* lines 336-452: the new value of this.terminology
processTerminologyResponse(current, content) ==
  LET cleaned == cleanJsonContent(content) IN
  IF cleaned.t = "text" THEN current
  ELSE LET parsedContent == JsonParse(cleaned) IN
       IF parsedContent.t = "null" THEN << >>
       ELSE IF Truthy(Get(parsedContent, "terminology")) /\ IsArray(Get(parsedContent, "terminology"))
       THEN LET kept == SelectSeq(Get(parsedContent, "terminology").items, IsTermEntry) IN
            [n \in DOMAIN kept |-> TermEntry(Get(kept[n], "original"), Get(kept[n], "translated"))]
       ELSE IF Len(AlternativeTerms(parsedContent,
                     <<"terms", "entries", "glossary", "dictionary", "translations">>)) > 0
       THEN AlternativeTerms(parsedContent,
                     <<"terms", "entries", "glossary", "dictionary", "translations">>)
       ELSE IF IsArray(parsedContent) /\ Len(FormatTerms(parsedContent.items, FALSE)) > 0
       THEN FormatTerms(parsedContent.items, FALSE)
       ELSE KeyValueTerms(parsedContent)

\* lines 741-797: the prompt text is determined by the languages and the
\* rendered glossary rows; without rows (undefined or empty) it is the same
createSystemPrompt(targetLanguage, sourceLanguage, terms) ==
  [template |-> "translate", source |-> sourceLanguage, target |-> targetLanguage,
   glossary |-> terms]

\* (mutant) the glossary is left out of the prompt
PromptTerminologyOmitted(option, terms) == << >>

\* line 134: terminology ? this.terminology : undefined
PromptTerminology(option, terms) == IF option THEN terms ELSE << >>

(***************************************************************************)
(* TranslationService.translateTexts                                       *)
(***************************************************************************)
\* most texts in a job
MaxJobTexts == 4
\* most texts in a job whose texts are drawn freely; a longer job takes
\* its texts from the pool in turn
MaxVariedTexts == 3
\* most runs of the program over one cache directory
MaxRuns == 2
\* largest options.concurrentRequests
MaxConcurrent == 2

JobTextPool == {"a", "bb"}
BatchLengthChoices == {1, 3}
LongJobTexts(count) == [n \in 1..count |-> IF n % 2 = 1 THEN "a" ELSE "bb"]
JobTexts ==
  SeqsUpTo(JobTextPool, MaxVariedTexts)
    \cup {LongJobTexts(count) : count \in (MaxVariedTexts + 1)..MaxJobTexts}
Models == {"gpt-3.5-turbo"}

Min(a, b) == IF a <= b THEN a ELSE b
\* 0, 1, ..., n-1 as a sequence
RECURSIVE Ascending(_)
Ascending(S) ==
  IF S = {} THEN << >>
  ELSE LET least == CHOOSE x \in S : \A y \in S : x <= y IN
       <<least>> \o Ascending(S \ {least})

\* batches[batchIndex], the index counted from 0 as in the code
BatchAt(batchIndex) == batches[batchIndex + 1]

\* line 141: concurrentRequests || 1
parallelRequests == IF concurrentRequests = 0 THEN 1 ELSE concurrentRequests

\* (mutant) the slice takes one batch more than the group size
GroupIndicesOneMore(start, size, count) == start .. (Min(start + size + 1, count) - 1)

\* line 155: the batch indices of batches.slice(i, i + parallelRequests)
GroupIndices(start, size, count) == start .. (Min(start + size, count) - 1)

\* (mutant) a failed batch yields no entries
EmptyTranslationsNone(batch) == << >>

\* (mutant) a failed batch yields its source texts
EmptyTranslationsSource(batch) == [n \in DOMAIN batch |-> JStr(batch[n])]

\* line 202: batch.map(() => '')
EmptyTranslations(batch) == [n \in DOMAIN batch |-> JStr("")]

RECURSIVE InsertResult(_, _)
InsertResult(sorted, r) ==
  IF sorted = << >> THEN <<r>>
  ELSE IF r.index - Head(sorted).index < 0 THEN <<r>> \o sorted
  ELSE <<Head(sorted)>> \o InsertResult(Tail(sorted), r)

RECURSIVE InsertResultDescending(_, _)
InsertResultDescending(sorted, r) ==
  IF sorted = << >> THEN <<r>>
  ELSE IF Head(sorted).index - r.index < 0 THEN <<r>> \o sorted
  ELSE <<Head(sorted)>> \o InsertResultDescending(Tail(sorted), r)

\* (mutant) the comparator is (a, b) => b.index - a.index
RECURSIVE SortResultsDescending(_)
SortResultsDescending(list) ==
  IF list = << >> THEN << >>
  ELSE InsertResultDescending(SortResultsDescending(SubSeq(list, 1, Len(list) - 1)),
                              list[Len(list)])

\* line 219: results.sort((a, b) => a.index - b.index), a stable sort
RECURSIVE SortResults(_)
SortResults(list) ==
  IF list = << >> THEN << >>
  ELSE InsertResult(SortResults(Tail(list)), Head(list))

\* line 220: results.flatMap((result) => result.translations)
FlatMapTranslations(list) == Flat([n \in DOMAIN list |-> list[n].translations])

\* lines 176-191 and 481-489: what the two cache checks of one batch give
\* before any request is sent
FirstCheck(batchIndex) ==
  getApiResponse(cacheEnabled, cacheFiles, LookupRequest(model, systemPrompt, BatchAt(batchIndex)))
SecondCheck(batchIndex) ==
  getApiResponse(cacheEnabled, cacheFiles, BatchRequest(model, systemPrompt, BatchAt(batchIndex)))
ServedByFirstCheck(batchIndex) ==
  ~FirstCheck(batchIndex).isNull /\ HasContent(FirstCheck(batchIndex))
ServedBySecondCheck(batchIndex) ==
  /\ ~ServedByFirstCheck(batchIndex)
  /\ ~SecondCheck(batchIndex).isNull /\ HasContent(SecondCheck(batchIndex))
ServedFromCache(batchIndex) == ServedByFirstCheck(batchIndex) \/ ServedBySecondCheck(batchIndex)
CachedOutcome(batchIndex) ==
  processResponseContent(
    ContentOf(IF ServedByFirstCheck(batchIndex) THEN FirstCheck(batchIndex)
              ELSE SecondCheck(batchIndex)),
    BatchAt(batchIndex))
CachedOrigin(batchIndex) ==
  cacheOrigin[generateApiKey(IF ServedByFirstCheck(batchIndex)
                             THEN LookupRequest(model, systemPrompt, BatchAt(batchIndex))
                             ELSE BatchRequest(model, systemPrompt, BatchAt(batchIndex)))]

Init ==
  /\ cbIdle /\ vIdle /\ ttIdle /\ cliIdle /\ pIdle /\ uIdle /\ ioIdle
  /\ srtIdle /\ bpIdle
  /\ texts \in JobTexts
  /\ maxBatchLength \in BatchLengthChoices
  /\ concurrentRequests \in 0..MaxConcurrent
  /\ terminologyOption \in BOOLEAN
  /\ model \in Models
  /\ cacheEnabled \in BOOLEAN
  /\ cacheFiles = << >> /\ cacheOrigin = << >>
  /\ terminology = << >>
  /\ pc = "call"
  /\ batches = << >> /\ systemPrompt = << >> /\ loopI = 0 /\ outstanding = {}
  /\ groupResults = << >> /\ results = << >> /\ allTranslations = << >>
  /\ completedBatches = 0 /\ totalBatches = 0 /\ cacheHits = 0
  /\ progressUpdateInterval = FALSE
  /\ sentCount = << >> /\ sentRequests = {} /\ batchOutcome = << >>
  /\ servedFrom = << >> /\ settleOrder = << >>
  /\ runs = 1
  /\ extractOutcome = "none"
  /\ seed = << >>
  /\ earlier = "none"
  /\ extractSends = 0

inputVars == <<texts, maxBatchLength, concurrentRequests, terminologyOption, model,
               cacheEnabled, runs, seed, earlier>>
otherVars == <<cbVars, vVars, ttVars, cliVars, pVars, uVars, ioVars, srtVars, bpVars>>

\* the glossary a caller supplies before the call
SeedTerminology == <<TermEntry(JStr("Ann"), JStr("AnNi"))>>

\* lines 846-848: this.terminology = [...terminology]
setTerminology(entries) == entries

\* lines 846-848: the caller seeds the glossary of a job that has terminology
\* enabled, before translateTexts is called
SetTerminology ==
  /\ pc = "call"
  /\ terminologyOption
  /\ seed = << >>
  /\ seed' = SeedTerminology
  /\ terminology' = setTerminology(SeedTerminology)
  /\ UNCHANGED <<texts, maxBatchLength, concurrentRequests, terminologyOption, model,
                 cacheEnabled, runs, cacheFiles, cacheOrigin, pc, batches, systemPrompt,
                 loopI, outstanding, groupResults, results, allTranslations,
                 completedBatches, totalBatches, cacheHits, progressUpdateInterval,
                 sentCount, sentRequests, batchOutcome, servedFrom, settleOrder,
                 extractOutcome, earlier, extractSends>>
  /\ UNCHANGED otherVars

\* lines 73-115: batches are created, progress is reset and the timer started
TranslateTextsEnter ==
  /\ pc = "call"
  /\ batches' = createBatches(texts, maxBatchLength)
  /\ completedBatches' = 0
  /\ totalBatches' = Len(createBatches(texts, maxBatchLength))
  /\ progressUpdateInterval' = TRUE
  /\ sentCount' = [b \in 0..(Len(createBatches(texts, maxBatchLength)) - 1) |-> 0]
  /\ pc' = IF terminologyOption THEN "extract" ELSE "prompt"
  /\ UNCHANGED <<inputVars, cacheFiles, cacheOrigin, terminology, systemPrompt, loopI,
                 outstanding, groupResults, results, allTranslations, cacheHits,
                 sentRequests, batchOutcome, servedFrom, settleOrder>>
  /\ UNCHANGED <<extractOutcome, extractSends>>
  /\ UNCHANGED otherVars

\* lines 242-308: the glossary is cleared; a cached response with content
\* is processed and no request is made
ExtractFromCache ==
  /\ pc = "extract"
  /\ LET cachedResponse == getApiResponse(cacheEnabled, cacheFiles, ExtractRequest(model, batches)) IN
     /\ ~cachedResponse.isNull /\ HasContent(cachedResponse)
     /\ terminology' = processTerminologyResponse(<< >>, ContentOf(cachedResponse))
  /\ pc' = "prompt"
  /\ UNCHANGED <<inputVars, cacheFiles, cacheOrigin, batches, systemPrompt, loopI,
                 outstanding, groupResults, results, allTranslations, completedBatches,
                 totalBatches, cacheHits, progressUpdateInterval,
                 sentCount, sentRequests, batchOutcome, servedFrom, settleOrder>>
  /\ extractOutcome' = "cached"
  /\ UNCHANGED extractSends
  /\ UNCHANGED otherVars

\* lines 242-312: the glossary is cleared and the extraction request is sent
ExtractSend ==
  /\ pc = "extract"
  /\ LET cachedResponse == getApiResponse(cacheEnabled, cacheFiles, ExtractRequest(model, batches)) IN
     cachedResponse.isNull \/ ~HasContent(cachedResponse)
  /\ terminology' = << >>
  /\ sentRequests' = sentRequests \cup {ExtractRequest(model, batches)}
  /\ pc' = "extracting"
  /\ UNCHANGED <<inputVars, cacheFiles, cacheOrigin, batches, systemPrompt, loopI,
                 outstanding, groupResults, results, allTranslations, completedBatches,
                 totalBatches, cacheHits, progressUpdateInterval,
                 sentCount, batchOutcome, servedFrom, settleOrder>>
  /\ extractSends' = extractSends + 1
  /\ UNCHANGED extractOutcome
  /\ UNCHANGED otherVars

\* (mutant) the error of a failed extraction leaves translateTexts
ExtractionFailureRethrown == "aborted"

\* lines 325-329: the catch logs the error and the call goes on
AfterExtractionFailure == "prompt"

\* lines 312, 325-329: the extraction request fails
ExtractThrows ==
  /\ pc = "extracting"
  /\ terminology' = << >>
  /\ pc' = AfterExtractionFailure
  /\ UNCHANGED <<inputVars, cacheFiles, cacheOrigin, batches, systemPrompt, loopI,
                 outstanding, groupResults, results, allTranslations, completedBatches,
                 totalBatches, cacheHits, progressUpdateInterval,
                 sentCount, sentRequests, batchOutcome, servedFrom, settleOrder>>
  /\ extractOutcome' = "threw"
  /\ UNCHANGED extractSends
  /\ UNCHANGED otherVars

\* lines 312-329: the extraction response arrives, is cached and processed
ExtractResponds ==
  /\ pc = "extracting"
  /\ \E response \in ExtractReplies :
       /\ cacheFiles' = setApiResponse(cacheEnabled, cacheFiles, ExtractRequest(model, batches), response)
       /\ cacheOrigin' = setApiResponse(cacheEnabled, cacheOrigin, ExtractRequest(model, batches),
                                        ExtractRequest(model, batches))
       /\ terminology' = IF HasContent(response)
                         THEN processTerminologyResponse(terminology, ContentOf(response))
                         ELSE << >>
       /\ extractOutcome' =
            IF ~HasContent(response) THEN "noContent"
            ELSE IF processTerminologyResponse(terminology, ContentOf(response)) = << >>
            THEN "noTerms"
            ELSE "terms"
       /\ pc' = IF HasContent(response) THEN "prompt" ELSE AfterExtractionFailure
  /\ UNCHANGED <<inputVars, batches, systemPrompt, loopI,
                 outstanding, groupResults, results, allTranslations, completedBatches,
                 totalBatches, cacheHits, progressUpdateInterval,
                 sentCount, sentRequests, batchOutcome, servedFrom, settleOrder,
                 extractSends>>
  /\ UNCHANGED otherVars

\* lines 131-151: the one system prompt of the job is built
BuildSystemPrompt ==
  /\ pc = "prompt"
  /\ systemPrompt' = createSystemPrompt(TargetLanguage, SourceLanguage,
                                        PromptTerminology(terminologyOption, terminology))
  /\ cacheHits' = 0
  /\ results' = << >>
  /\ loopI' = 0
  /\ pc' = "dispatch"
  /\ UNCHANGED <<inputVars, cacheFiles, cacheOrigin, terminology, batches,
                 outstanding, groupResults, allTranslations, completedBatches,
                 totalBatches, progressUpdateInterval,
                 sentCount, sentRequests, batchOutcome, servedFrom, settleOrder>>
  /\ UNCHANGED <<extractOutcome, extractSends>>
  /\ UNCHANGED otherVars

\* (mutant) a finished batch is not counted
updateProgressSkipped(completed) == completed

\* lines 953-958: this.completedBatches++, and one 'progress' event
updateProgress(completed) == completed + 1

\* updateProgress called once by each of count callbacks
RECURSIVE ProgressAfter(_, _)
ProgressAfter(completed, count) ==
  IF count = 0 THEN completed ELSE ProgressAfter(updateProgress(completed), count - 1)

\* lines 154-195, 461-492: the callbacks of one group run up to their first
\* suspension: both cache checks, then the provider request
DispatchGroup ==
  /\ pc = "dispatch"
  /\ loopI < Len(batches)
  /\ LET group == GroupIndices(loopI, parallelRequests, Len(batches))
         served == {b \in group : ServedFromCache(b)}
         sent == group \ served IN
     /\ cacheHits' = cacheHits + Cardinality({b \in group : ~FirstCheck(b).isNull})
     /\ groupResults' = [b \in served |-> CachedOutcome(b).value]
     /\ completedBatches' = ProgressAfter(completedBatches, Cardinality(served))
     /\ outstanding' = sent
     /\ sentCount' = [b \in DOMAIN sentCount |->
                        IF b \in sent THEN sentCount[b] + 1 ELSE sentCount[b]]
     /\ sentRequests' = sentRequests \cup
                          {BatchRequest(model, systemPrompt, BatchAt(b)) : b \in sent}
     /\ batchOutcome' = [b \in served |->
                           [kind |-> IF CachedOutcome(b).fellBack THEN "cachedFellBack"
                                     ELSE "cached",
                            translations |-> CachedOutcome(b).value]]
                          @@ batchOutcome
     /\ servedFrom' = [b \in served |-> CachedOrigin(b)] @@ servedFrom
     /\ settleOrder' = settleOrder \o Ascending(served)
  /\ pc' = "group"
  /\ UNCHANGED <<inputVars, cacheFiles, cacheOrigin, terminology, batches, systemPrompt,
                 loopI, results, allTranslations, totalBatches, progressUpdateInterval>>
  /\ UNCHANGED <<extractOutcome, extractSends>>
  /\ UNCHANGED otherVars

Settled(batchIndex, translations, outcome) ==
  /\ groupResults' = (batchIndex :> translations) @@ groupResults
  /\ completedBatches' = updateProgress(completedBatches)
  /\ outstanding' = outstanding \ {batchIndex}
  /\ batchOutcome' = (batchIndex :> [kind |-> outcome, translations |-> translations])
                       @@ batchOutcome
  /\ settleOrder' = Append(settleOrder, batchIndex)
  /\ UNCHANGED <<sentCount, sentRequests>>

\* the callback of a batch sends the batch's request once more
SentAgain(batchIndex) ==
  /\ sentCount' = [sentCount EXCEPT ![batchIndex] = @ + 1]
  /\ sentRequests' = sentRequests \cup {BatchRequest(model, systemPrompt, BatchAt(batchIndex))}
  /\ UNCHANGED <<groupResults, completedBatches, outstanding, batchOutcome, settleOrder>>

\* (mutant) a failed batch is sent again until it has been sent three times
GivesUpAfterThree(attempts) == attempts >= 3

\* lines 198-203 and 545-549: both catches return the substitute at once,
\* however often the batch has been sent
GivesUp(attempts) == TRUE

\* lines 492, 506-515, 198-203: the provider call of a batch fails
SettleThrows ==
  /\ pc = "group"
  /\ \E b \in outstanding :
       IF GivesUp(sentCount[b])
       THEN Settled(b, EmptyTranslations(BatchAt(b)), "failed")
       ELSE SentAgain(b)
  /\ UNCHANGED <<inputVars, cacheFiles, cacheOrigin, terminology, pc, batches, systemPrompt,
                 loopI, results, allTranslations, totalBatches, cacheHits,
                 progressUpdateInterval, servedFrom>>
  /\ UNCHANGED <<extractOutcome, extractSends>>
  /\ UNCHANGED otherVars

\* lines 492-505, 196-203: the provider response of a batch arrives, is
\* cached, and its content is processed
SettleResponds ==
  /\ pc = "group"
  /\ \E b \in outstanding : \E response \in TranslateReplies(BatchAt(b)) :
       LET request == BatchRequest(model, systemPrompt, BatchAt(b))
           outcome == processResponseContent(ContentOf(response), BatchAt(b)) IN
       /\ cacheFiles' = setApiResponse(cacheEnabled, cacheFiles, request, response)
       /\ cacheOrigin' = setApiResponse(cacheEnabled, cacheOrigin, request, request)
       /\ IF HasContent(response) /\ ~outcome.fellBack
          THEN Settled(b, outcome.value, "translated")
          ELSE IF ~GivesUp(sentCount[b])
          THEN SentAgain(b)
          ELSE IF ~HasContent(response)
          THEN Settled(b, EmptyTranslations(BatchAt(b)), "noContent")
          ELSE Settled(b, outcome.value, "fellBack")
  /\ UNCHANGED <<inputVars, terminology, pc, batches, systemPrompt,
                 loopI, results, allTranslations, totalBatches, cacheHits,
                 progressUpdateInterval, servedFrom>>
  /\ UNCHANGED <<extractOutcome, extractSends>>
  /\ UNCHANGED otherVars

\* lines 207-209: Promise.all of the group resolves, in the group's order
AwaitGroup ==
  /\ pc = "group"
  /\ outstanding = {}
  /\ LET group == Ascending(DOMAIN groupResults) IN
     results' = results \o [n \in DOMAIN group |->
                              [index |-> group[n], translations |-> groupResults[group[n]]]]
  /\ groupResults' = << >>
  /\ loopI' = loopI + parallelRequests
  /\ pc' = "dispatch"
  /\ UNCHANGED <<inputVars, cacheFiles, cacheOrigin, terminology, batches, systemPrompt,
                 outstanding, allTranslations, completedBatches, totalBatches, cacheHits,
                 progressUpdateInterval, sentCount, sentRequests, batchOutcome, servedFrom,
                 settleOrder>>
  /\ UNCHANGED <<extractOutcome, extractSends>>
  /\ UNCHANGED otherVars

\* (mutant) the timer is left running
stopProgressTrackingSkipped(interval) == interval

\* lines 943-948: the timer, if set, is cleared
stopProgressTracking(interval) == FALSE

\* lines 211-225: the timer is cleared, the results sorted and flattened
TranslateTextsReturn ==
  /\ pc = "dispatch"
  /\ loopI >= Len(batches)
  /\ progressUpdateInterval' = stopProgressTracking(progressUpdateInterval)
  /\ results' = SortResults(results)
  /\ allTranslations' = FlatMapTranslations(SortResults(results))
  /\ pc' = "returned"
  /\ UNCHANGED <<inputVars, cacheFiles, cacheOrigin, terminology, batches, systemPrompt,
                 loopI, outstanding, groupResults, completedBatches, totalBatches, cacheHits,
                 sentCount, sentRequests, batchOutcome, servedFrom, settleOrder>>
  /\ UNCHANGED <<extractOutcome, extractSends>>
  /\ UNCHANGED otherVars

\* how the provider calls of the run that has returned ended: one of them
\* threw, or else one of them was answered without content, or else every
\* one was answered with content
RunSummary ==
  IF extractOutcome = "threw" \/ \E b \in DOMAIN batchOutcome : batchOutcome[b].kind = "failed"
  THEN "threw"
  ELSE IF extractOutcome = "noContent"
          \/ \E b \in DOMAIN batchOutcome : batchOutcome[b].kind = "noContent"
  THEN "empty"
  ELSE "answered"

\* lines 47-70 and cacheService.ts 26-44: the program is run once more on the
\* same input; the service is constructed anew, the cache directory is kept.
\* Without a cache directory nothing of the first run reaches the second, which
\* is then a copy of the first and is left out.
RunAgain ==
  /\ pc = "returned"
  /\ runs < MaxRuns
  /\ cacheEnabled
  /\ runs' = runs + 1
  /\ terminology' = << >>
  /\ pc' = "call"
  /\ batches' = << >> /\ systemPrompt' = << >> /\ loopI' = 0 /\ outstanding' = {}
  /\ groupResults' = << >> /\ results' = << >> /\ allTranslations' = << >>
  /\ completedBatches' = 0 /\ totalBatches' = 0 /\ cacheHits' = 0
  /\ progressUpdateInterval' = FALSE
  /\ sentCount' = << >> /\ sentRequests' = {} /\ batchOutcome' = << >>
  /\ servedFrom' = << >> /\ settleOrder' = << >>
  /\ UNCHANGED <<texts, maxBatchLength, concurrentRequests, terminologyOption, model,
                 cacheEnabled, cacheFiles, cacheOrigin>>
  /\ extractOutcome' = "none"
  /\ extractSends' = 0
  /\ seed' = << >>
  /\ earlier' = RunSummary
  /\ UNCHANGED otherVars

Next ==
  \/ RunAgain
  \/ SetTerminology
  \/ TranslateTextsEnter
  \/ ExtractFromCache
  \/ ExtractSend
  \/ ExtractThrows
  \/ ExtractResponds
  \/ BuildSystemPrompt
  \/ DispatchGroup
  \/ SettleThrows
  \/ SettleResponds
  \/ AwaitGroup
  \/ TranslateTextsReturn

Spec == Init /\ [][Next]_vars

\* translateTexts on a service whose cache is switched off: nothing is read
\* from the cache directory and no later run differs from the first
InitUncached == Init /\ ~cacheEnabled

NextUncached ==
  \/ SetTerminology
  \/ TranslateTextsEnter
  \/ ExtractSend
  \/ ExtractThrows
  \/ ExtractResponds
  \/ BuildSystemPrompt
  \/ DispatchGroup
  \/ SettleThrows
  \/ SettleResponds
  \/ AwaitGroup
  \/ TranslateTextsReturn

\* every provider call settles, and the continuations that are ready run
FairSpecUncached == InitUncached /\ [][NextUncached]_vars /\ WF_vars(NextUncached)

(***************************************************************************)
(* processSubtitles: the command-line program built on Translator          *)
(***************************************************************************)
\* most subtitles in an input file
MaxSubtitles == 3

SubtitleHashes == <<"h1", "h2", "h3", "h4", "h5">>
SubtitleTexts == {"a", "ccc"}
MaxLengthChoices == {1, 3}
\* glossaries an extraction response may carry
GlossaryReplies == {EmptyMap, [Tom |-> "TangMu"], [Tom |-> "TaMu", Ann |-> "AnNi"]}

\* subtitle.text.join('\n').length
TextLength(subtitle) == Len(subtitle.text)

\* lines 68-78: the batches pushed while the subtitles from position n on
\* are placed; a batch is closed, empty or not, when the next subtitle would
\* exceed maxLength
RECURSIVE ComposeLoop(_, _, _, _, _)
ComposeLoop(subtitleList, n, maxLen, currentBatch, currentBatchLength) ==
  IF n > Len(subtitleList)
  THEN IF Len(currentBatch) > 0 THEN <<currentBatch>> ELSE << >>
  ELSE IF currentBatchLength + TextLength(subtitleList[n]) > maxLen
  THEN <<currentBatch>> \o ComposeLoop(subtitleList, n + 1, maxLen, <<subtitleList[n]>>,
                                       TextLength(subtitleList[n]))
  ELSE ComposeLoop(subtitleList, n + 1, maxLen, Append(currentBatch, subtitleList[n]),
                   currentBatchLength + TextLength(subtitleList[n]))

\* lines 63-82
ComposeBatches(subtitleList, maxLen) == ComposeLoop(subtitleList, 1, maxLen, << >>, 0)

\* translate.ts 112-115: { hash: text } of a batch
SubtitleMap(batch) ==
  [hash \in {batch[n].hash : n \in DOMAIN batch} |->
     batch[CHOOSE n \in DOMAIN batch :
             /\ batch[n].hash = hash
             /\ \A later \in DOMAIN batch : batch[later].hash = hash => later <= n].text]

\* srt.ts 84-121: the translation instruction; the glossary section lists
\* the entries of the glossary object
CliSystemPrompt(sourceLanguage, targetLanguage, glossaryMap) ==
  [template |-> "systemPrompt", source |-> sourceLanguage, target |-> targetLanguage,
   glossary |-> glossaryMap]

\* translate.ts 218-226
CliExtractRequest(batchIndex) ==
  [kind |-> "extract", batch |-> batchIndex,
   system |-> [template |-> "extractGlossaryPrompt", source |-> SourceLanguage,
               target |-> TargetLanguage],
   user |-> cliBatches[batchIndex + 1]]

\* translate.ts 137-152
CliTranslateRequest(batchIndex, call) ==
  [kind |-> "translate", batch |-> batchIndex,
   system |-> CliSystemPrompt(SourceLanguage, TargetLanguage, call.glossary),
   user |-> currentSubtitleMap(SubtitleMap(cliBatches[batchIndex + 1]), call.retryCount,
                               call.previousTranslated)]

\* (mutant) the translation callback is handed no glossary
CallGlossaryOmitted(glossaryMap) == EmptyMap

\* lines 117-122: the glossary argument of translator.translateText
CallGlossary(glossaryMap) == glossaryMap

\* the translateText call a batch's callback makes
FirstCall(glossaryMap) ==
  [glossary |-> CallGlossary(glossaryMap), retryCount |-> 0, previousTranslated |-> EmptyMap]

CliGroup == GroupIndices(cliI, cliConcurrency, Len(cliBatches))

\* translate.ts 160: the keys of a parsed completion are whatever the provider
\* wrote: some of the hashes asked for, or the hashes of the whole file
CliReplyKeys(subtitleMap) ==
  (SUBSET Keys(subtitleMap)) \cup {{cliSubtitles[n].hash : n \in DOMAIN cliSubtitles}}

\* how a translateText call ended: it threw (lines 126-129 swallow the error)
\* or returned a map
CallThrew == [threw |-> TRUE, map |-> EmptyMap]
CallReturned(translatedMap) == [threw |-> FALSE, map |-> translatedMap]

InitCli ==
  /\ cbIdle /\ vIdle /\ ttIdle /\ svcIdle /\ pIdle /\ uIdle /\ ioIdle
  /\ srtIdle /\ bpIdle
  /\ \E count \in 0..MaxSubtitles :
       cliSubtitles \in {[n \in 1..count |-> [hash |-> SubtitleHashes[n], text |-> chosen[n]]] :
                           chosen \in [1..count -> SubtitleTexts]}
  /\ cliMaxLength \in MaxLengthChoices
  /\ cliConcurrency \in 1..MaxConcurrent
  /\ cliPc = "call"
  /\ cliBatches = << >> /\ cliI = 0 /\ cliOutstanding = {} /\ cliGlossary = EmptyMap
  /\ cliCalls = << >> /\ cliResults = EmptyMap /\ cliOutput = << >> /\ cliSent = {}
  /\ cliExtracted = {} /\ cliMerged = << >> /\ cliReturned = << >>

cliInputs == <<cliSubtitles, cliMaxLength, cliConcurrency>>
nonCliVars == <<cbVars, vVars, ttVars, svcVars, pVars, uVars, ioVars, srtVars, bpVars>>

\* lines 58-94: the file is read and the batches are composed
CliCompose ==
  /\ cliPc = "call"
  /\ cliBatches' = ComposeBatches(cliSubtitles, cliMaxLength)
  /\ cliGlossary' = EmptyMap
  /\ cliI' = 0
  /\ cliPc' = "extractDispatch"
  /\ UNCHANGED <<cliInputs, cliOutstanding, cliCalls, cliResults, cliOutput, cliSent,
                 cliExtracted, cliMerged, cliReturned>>
  /\ UNCHANGED nonCliVars

\* lines 95-101: the extraction requests of one group are sent
CliExtractDispatch ==
  /\ cliPc = "extractDispatch"
  /\ cliI < Len(cliBatches)
  /\ cliOutstanding' = CliGroup
  /\ cliSent' = cliSent \cup {CliExtractRequest(b) : b \in CliGroup}
  /\ cliPc' = "extractGroup"
  /\ UNCHANGED <<cliInputs, cliBatches, cliI, cliGlossary, cliCalls, cliResults, cliOutput,
                 cliExtracted, cliMerged, cliReturned>>
  /\ UNCHANGED nonCliVars

\* (mutant) the glossary read before the await is lost: glossary = { ...result }
MergeGlossaryStale(glossary, result) == result

\* line 102: glossary = { ...glossary, ...result }, evaluated in one piece
\* after the await of line 97
MergeGlossary(glossary, result) == Spread(glossary, result)

\* lines 97-103: an extraction response is merged into the glossary
CliExtractResponds ==
  /\ cliPc = "extractGroup"
  /\ \E b \in cliOutstanding : \E result \in GlossaryReplies :
       /\ cliGlossary' = MergeGlossary(cliGlossary, result)
       /\ cliOutstanding' = cliOutstanding \ {b}
       /\ cliExtracted' = cliExtracted \cup {b}
       /\ cliMerged' = Append(cliMerged, [batch |-> b, result |-> result])
  /\ UNCHANGED <<cliInputs, cliPc, cliBatches, cliI, cliCalls, cliResults, cliOutput, cliSent,
                 cliReturned>>
  /\ UNCHANGED nonCliVars

\* translate.ts 217-237 and lines 105, 140-143: extractGlossary throws,
\* Promise.all rejects and the outer catch ends the process
CliExtractThrows ==
  /\ cliPc = "extractGroup"
  /\ cliOutstanding # {}
  /\ cliPc' = "exited"
  /\ UNCHANGED <<cliInputs, cliBatches, cliI, cliOutstanding, cliGlossary, cliCalls,
                 cliResults, cliOutput, cliSent, cliExtracted, cliMerged, cliReturned>>
  /\ UNCHANGED nonCliVars

\* line 105 and the loop step of line 95
CliExtractAwait ==
  /\ cliPc = "extractGroup"
  /\ cliOutstanding = {}
  /\ cliI' = cliI + cliConcurrency
  /\ cliPc' = "extractDispatch"
  /\ UNCHANGED <<cliInputs, cliBatches, cliOutstanding, cliGlossary, cliCalls, cliResults,
                 cliOutput, cliSent, cliExtracted, cliMerged, cliReturned>>
  /\ UNCHANGED nonCliVars

\* lines 107-114: extraction is over, the translation loop starts; the
\* glossary is final and the record of its merges is closed
CliExtractEnd ==
  /\ cliPc = "extractDispatch"
  /\ cliI >= Len(cliBatches)
  /\ cliResults' = EmptyMap
  /\ cliI' = 0
  /\ cliPc' = "translateDispatch"
  /\ cliMerged' = << >>
  /\ UNCHANGED <<cliInputs, cliBatches, cliOutstanding, cliGlossary, cliCalls, cliOutput,
                 cliSent, cliExtracted, cliReturned>>
  /\ UNCHANGED nonCliVars

\* lines 115-123 and translate.ts 110-152: the translateText calls of one
\* group are made; a call with nothing to translate returns at once
CliTranslateDispatch ==
  /\ cliPc = "translateDispatch"
  /\ cliI < Len(cliBatches)
  /\ LET sending == {b \in CliGroup : Keys(SubtitleMap(cliBatches[b + 1])) # {}} IN
     /\ cliOutstanding' = sending
     /\ cliCalls' = [b \in sending |-> FirstCall(cliGlossary)]
     /\ cliSent' = cliSent \cup {CliTranslateRequest(b, FirstCall(cliGlossary)) : b \in sending}
     /\ cliReturned' = [b \in DOMAIN cliReturned \cup (CliGroup \ sending) |->
                          IF b \in DOMAIN cliReturned THEN cliReturned[b]
                          ELSE CallReturned(EmptyMap)]
  /\ cliPc' = "translateGroup"
  /\ UNCHANGED <<cliInputs, cliBatches, cliI, cliGlossary, cliResults, cliOutput, cliExtracted,
                 cliMerged>>
  /\ UNCHANGED nonCliVars

\* the callback of a batch ends
CliSettled(batchIndex, ending) ==
  /\ cliOutstanding' = cliOutstanding \ {batchIndex}
  /\ cliCalls' = [b \in DOMAIN cliCalls \ {batchIndex} |-> cliCalls[b]]
  /\ cliReturned' = [b \in DOMAIN cliReturned \cup {batchIndex} |->
                       IF b = batchIndex THEN ending ELSE cliReturned[b]]
  /\ UNCHANGED cliSent

\* translate.ts 144-160, 191-194 and lines 126-129: the provider call
\* rejects or the completion is empty or not JSON; the callback's catch
\* returns {}
CliTranslateThrows ==
  /\ cliPc = "translateGroup"
  /\ \E b \in cliOutstanding : CliSettled(b, CallThrew)
  /\ UNCHANGED <<cliInputs, cliPc, cliBatches, cliI, cliGlossary, cliResults, cliOutput,
                 cliExtracted, cliMerged>>
  /\ UNCHANGED nonCliVars

\* translate.ts 160-190 and lines 124-129: a JSON completion arrives; the
\* call re-invokes itself, throws, or returns the map the callback merges
CliTranslateCompletion ==
  /\ cliPc = "translateGroup"
  /\ \E b \in cliOutstanding :
     \E replied \in CliReplyKeys(SubtitleMap(cliBatches[b + 1])) :
       LET call == cliCalls[b]
           subtitleMap == SubtitleMap(cliBatches[b + 1])
           currentTranslatedMap == [k \in replied |-> ReplyText(call.retryCount)]
           translatedMap == Spread(call.previousTranslated, currentTranslatedMap)
           missingHashes == validateAllSubtitlesTranslated(subtitleMap, translatedMap)
           again == [glossary |-> call.glossary, retryCount |-> call.retryCount + 1,
                     previousTranslated |-> translatedMap] IN
       IF Cardinality(missingHashes) > 0 /\ MayRetry(call.retryCount)
       THEN /\ cliCalls' = [cliCalls EXCEPT ![b] = again]
            /\ cliSent' = cliSent \cup {CliTranslateRequest(b, again)}
            /\ UNCHANGED <<cliOutstanding, cliResults, cliReturned>>
       ELSE IF Cardinality(missingHashes) > 0
       THEN CliSettled(b, CallThrew) /\ UNCHANGED cliResults
       ELSE /\ CliSettled(b, CallReturned(translatedMap))
            /\ cliResults' = Spread(cliResults, translatedMap)
  /\ UNCHANGED <<cliInputs, cliPc, cliBatches, cliI, cliGlossary, cliOutput, cliExtracted,
                 cliMerged>>
  /\ UNCHANGED nonCliVars

\* line 131 and the loop step of line 115
CliTranslateAwait ==
  /\ cliPc = "translateGroup"
  /\ cliOutstanding = {}
  /\ cliI' = cliI + cliConcurrency
  /\ cliPc' = "translateDispatch"
  /\ UNCHANGED <<cliInputs, cliBatches, cliOutstanding, cliGlossary, cliCalls, cliResults,
                 cliOutput, cliSent, cliExtracted, cliMerged, cliReturned>>
  /\ UNCHANGED nonCliVars

\* line 138: results[subtitle.hash]?.split('\n') || subtitle.text, for
\* texts of one line
OutputText(subtitle, resultMap) ==
  IF subtitle.hash \in Keys(resultMap) THEN resultMap[subtitle.hash] ELSE subtitle.text

\* lines 133-142: the output file is written
CliWrite ==
  /\ cliPc = "translateDispatch"
  /\ cliI >= Len(cliBatches)
  /\ cliOutput' = [n \in DOMAIN cliSubtitles |-> OutputText(cliSubtitles[n], cliResults)]
  /\ cliPc' = "written"
  /\ UNCHANGED <<cliInputs, cliBatches, cliI, cliOutstanding, cliGlossary, cliCalls,
                 cliResults, cliSent, cliExtracted, cliMerged, cliReturned>>
  /\ UNCHANGED nonCliVars

NextCli ==
  \/ CliCompose
  \/ CliExtractDispatch
  \/ CliExtractResponds
  \/ CliExtractThrows
  \/ CliExtractAwait
  \/ CliExtractEnd
  \/ CliTranslateDispatch
  \/ CliTranslateThrows
  \/ CliTranslateCompletion
  \/ CliTranslateAwait
  \/ CliWrite

SpecCli == InitCli /\ [][NextCli]_vars

\* the two programs that translate a file: either is run
InitJob == Init \/ InitCli
NextJob == Next \/ NextCli
SpecJob == InitJob /\ [][NextJob]_vars

(***************************************************************************)
(* translateBatchesParallel: the worker pool of the earlier revisions of   *)
(* TranslationService                                                      *)
(***************************************************************************)
\* most texts handed to the pool or to the per-text cache revision
MaxPoolTexts == 3
\* most translateBatch calls followed for one batch in one pool call
MaxPoolSends == 4

PoolTextPool == {"a", "bb"}
\* what translateBatch may return for a batch: the translations asked for,
\* empty translations, or an array that lacks the last one
Translated(batch) == [n \in DOMAIN batch |-> TranslationOf(batch[n])]
Blanks(batch) == [n \in DOMAIN batch |-> ""]
Shortened(batch) == [n \in 1..(Len(batch) - 1) |-> TranslationOf(batch[n])]
BatchReturns(batch) == {Translated(batch), Blanks(batch), Shortened(batch)}

\* Math.min(concurrentRequests, batches.length)
actualConcurrency(concurrentCount, batchList) == Min(concurrentCount, Len(batchList))

Waiting(batchIndex, failedIndex) ==
  [state |-> "waiting", batchIndex |-> batchIndex, retryOf |-> failedIndex]
Finished == [state |-> "done", batchIndex |-> -1, retryOf |-> -1]

\* currentBatchIndex++
Advance(current) == current + 1

\* the head of the while loop of processBatch: the next index is taken and
\* its translateBatch call is made, or the processor ends
LoopEntry(current, batchList, failedIndex) ==
  IF current < Len(batchList) THEN Waiting(current, failedIndex) ELSE Finished

CurrentAfter(current, processor) ==
  IF processor.state = "waiting" THEN Advance(current) ELSE current

SentAfter(sent, processor, batchList) ==
  IF processor.state = "waiting"
  THEN sent \cup {batchList[processor.batchIndex + 1][n] :
                    n \in DOMAIN batchList[processor.batchIndex + 1]}
  ELSE sent

\* the calls made per batch, after a processor passed the head of its loop
SendsAfter(sends, processor) ==
  IF processor.state = "waiting"
  THEN [sends EXCEPT ![processor.batchIndex] = @ + 1]
  ELSE sends

\* the call the processor makes is followed
WithinSends(sends, processor) ==
  processor.state = "waiting" => sends[processor.batchIndex] < MaxPoolSends

\* the processors started so far, each run up to its first await
RECURSIVE StartProcessors(_, _, _)
StartProcessors(count, batchList, started) ==
  IF Len(started.workers) >= count THEN started
  ELSE LET processor == LoopEntry(started.current, batchList, -1) IN
       StartProcessors(count, batchList,
                       [workers |-> Append(started.workers, processor),
                        current |-> CurrentAfter(started.current, processor),
                        sent |-> SentAfter(started.sent, processor, batchList),
                        sends |-> SendsAfter(started.sends, processor)])

InFlight(batchIndex) ==
  {w \in DOMAIN pWorkers : pWorkers[w].state = "waiting" /\ pWorkers[w].batchIndex = batchIndex}

InitPool ==
  /\ cbIdle /\ vIdle /\ ttIdle /\ svcIdle /\ cliIdle /\ uIdle /\ ioIdle
  /\ srtIdle /\ bpIdle
  /\ \E textList \in SeqsUpTo(PoolTextPool, MaxPoolTexts) : \E maxLen \in BatchLengthChoices :
       pBatches = createBatches(textList, maxLen)
  /\ pConcurrent \in 1..MaxConcurrent
  /\ pPc = "call"
  /\ pCurrent = 0 /\ pWorkers = << >> /\ pResults = << >> /\ pReturned = << >>
  /\ pWriters = << >> /\ pSentTexts = {} /\ pSends = << >>

nonPoolVars == <<cbVars, vVars, ttVars, svcVars, cliVars, ioVars, srtVars, bpVars>>

\* the pool is entered: results is allocated and the processors are started
PoolStart ==
  /\ pPc = "call"
  /\ LET started == StartProcessors(actualConcurrency(pConcurrent, pBatches), pBatches,
                                    [workers |-> << >>, current |-> 0, sent |-> {},
                                     sends |-> [b \in 0..(Len(pBatches) - 1) |-> 0]]) IN
     /\ pWorkers' = started.workers
     /\ pCurrent' = started.current
     /\ pSentTexts' = started.sent
     /\ pSends' = started.sends
  /\ pResults' = << >>
  /\ pWriters' = [b \in 0..(Len(pBatches) - 1) |-> {}]
  /\ pReturned' = << >>
  /\ pPc' = "running"
  /\ UNCHANGED <<pBatches, pConcurrent>>
  /\ UNCHANGED <<nonPoolVars, uVars>>

\* a processor's translateBatch call returns: the slot is assigned and the
\* loop goes on
PoolBatchReturns ==
  /\ pPc = "running"
  /\ \E w \in DOMAIN pWorkers :
       /\ pWorkers[w].state = "waiting"
       /\ \E translatedBatch \in BatchReturns(pBatches[pWorkers[w].batchIndex + 1]) :
            LET batchIndex == pWorkers[w].batchIndex
                processor == LoopEntry(pCurrent, pBatches, -1) IN
            /\ WithinSends(pSends, processor)
            /\ pSends' = SendsAfter(pSends, processor)
            /\ pResults' = (batchIndex :> translatedBatch) @@ pResults
            /\ pWriters' = [pWriters EXCEPT ![batchIndex] = @ \cup {w}]
            /\ pWorkers' = [pWorkers EXCEPT ![w] = processor]
            /\ pCurrent' = CurrentAfter(pCurrent, processor)
            /\ pSentTexts' = SentAfter(pSentTexts, processor, pBatches)
  /\ UNCHANGED <<pBatches, pConcurrent, pPc, pReturned>>
  /\ UNCHANGED <<nonPoolVars, uVars>>

\* a processor's translateBatch call throws: currentBatchIndex is
\* decremented and the loop goes on
PoolBatchThrows ==
  /\ pPc = "running"
  /\ \E w \in DOMAIN pWorkers :
       /\ pWorkers[w].state = "waiting"
       /\ LET processor == LoopEntry(pCurrent - 1, pBatches, pWorkers[w].batchIndex) IN
          /\ WithinSends(pSends, processor)
          /\ pSends' = SendsAfter(pSends, processor)
          /\ pWorkers' = [pWorkers EXCEPT ![w] = processor]
          /\ pCurrent' = CurrentAfter(pCurrent - 1, processor)
          /\ pSentTexts' = SentAfter(pSentTexts, processor, pBatches)
  /\ UNCHANGED <<pBatches, pConcurrent, pPc, pResults, pReturned, pWriters>>
  /\ UNCHANGED <<nonPoolVars, uVars>>

\* results.flat(): the slots that were assigned, in index order
FlatResults(slots) ==
  LET assigned == Ascending(DOMAIN slots) IN
  Flat([n \in DOMAIN assigned |-> slots[assigned[n]]])

\* every processor has ended: Promise.all resolves and the flattened results
\* are returned
PoolReturn ==
  /\ pPc = "running"
  /\ \A w \in DOMAIN pWorkers : pWorkers[w].state = "done"
  /\ pReturned' = FlatResults(pResults)
  /\ pPc' = "returned"
  /\ UNCHANGED <<pBatches, pConcurrent, pCurrent, pWorkers, pResults, pWriters, pSentTexts,
                 pSends>>
  /\ UNCHANGED <<nonPoolVars, uVars>>

NextPool ==
  \/ PoolStart
  \/ PoolBatchReturns
  \/ PoolBatchThrows
  \/ PoolReturn

SpecPool == InitPool /\ [][NextPool]_vars

\* C12 (as stated): no two processors work on the same batch index at the
\* same time, and each slot of results is assigned by at most one processor.
C12_DistinctBatchPerWorker ==
  /\ \A b \in DOMAIN pWriters : Cardinality(InFlight(b)) <= 1
  /\ \A b \in DOMAIN pWriters : Cardinality(pWriters[b]) <= 1

\* C29: translateBatchesParallel makes a bounded number of provider calls
\* per batch: no batch is sent more than three times, even when its call
\* fails on every attempt.
C29_BoundedSendsPerBatch ==
  \A b \in DOMAIN pSends : pSends[b] <= 3

\* C13 (as stated): when the pool returns every slot of results holds a
\* translated batch, and a processor whose call failed re-attempts the batch
\* that failed.
C13_EverySlotFilled ==
  /\ pPc = "returned" => DOMAIN pResults = 0..(Len(pBatches) - 1)
  /\ \A w \in DOMAIN pWorkers :
       pWorkers[w].state = "waiting" /\ pWorkers[w].retryOf # -1 =>
         pWorkers[w].batchIndex = pWorkers[w].retryOf

(***************************************************************************)
(* translateTexts of the revision with the per-text cache, and its         *)
(* CacheService                                                            *)
(***************************************************************************)
\* most calls of translateTexts on one service
MaxUnitCalls == 2

UnitModel == "gpt-3.5-turbo"

\* CacheService.generateKey: the string that is digested; the md5 digest is
\* taken to be collision-free
generateKey(text, targetLanguage, sourceLanguage, modelName) ==
  text \o "|" \o sourceLanguage \o "|" \o targetLanguage \o "|" \o modelName

\* CacheService.get: the file's content, or null
NoFile == [isNull |-> TRUE, text |-> ""]
get(enabled, files, text, targetLanguage, sourceLanguage, modelName) ==
  IF enabled /\ generateKey(text, targetLanguage, sourceLanguage, modelName) \in DOMAIN files
  THEN [isNull |-> FALSE,
        text |-> files[generateKey(text, targetLanguage, sourceLanguage, modelName)]]
  ELSE NoFile

\* CacheService.set
set(enabled, files, text, translation, targetLanguage, sourceLanguage, modelName) ==
  IF enabled
  THEN (generateKey(text, targetLanguage, sourceLanguage, modelName) :> translation) @@ files
  ELSE files

\* if (cachedTranslation): null and the empty string are falsy
IsCacheHit(cachedTranslation) == ~cachedTranslation.isNull /\ cachedTranslation.text # ""

UnitGet(files, text) == get(uEnabled, files, text, TargetLanguage, SourceLanguage, UnitModel)

\* the cache check loop: the positions of texts that are not served from
\* the cache, in order
MissedPositions(textList, files) ==
  Ascending({n \in DOMAIN textList : ~IsCacheHit(UnitGet(files, textList[n]))})

\* the loop that stores and places the new translations
RECURSIVE StoreLoop(_, _, _, _, _)
StoreLoop(n, newTranslations, toTranslate, indexMap, acc) ==
  IF n > Len(newTranslations) THEN acc
  ELSE StoreLoop(n + 1, newTranslations, toTranslate, indexMap,
         [files |-> set(uEnabled, acc.files, toTranslate[n], newTranslations[n],
                        TargetLanguage, SourceLanguage, UnitModel),
          results |-> (indexMap[n] :> newTranslations[n]) @@ acc.results])

InitUnit ==
  /\ cbIdle /\ vIdle /\ ttIdle /\ svcIdle /\ cliIdle /\ pIdle /\ ioIdle
  /\ srtIdle /\ bpIdle
  /\ uTexts \in SeqsUpTo(PoolTextPool, MaxPoolTexts)
  /\ uMaxBatch \in BatchLengthChoices
  /\ uConcurrent \in 0..MaxConcurrent
  /\ uEnabled \in BOOLEAN
  /\ uFiles = << >>
  /\ uPc = "call"
  /\ uResults = << >> /\ uToTranslate = << >> /\ uIndexMap = << >> /\ uReturned = << >>
  /\ uKnown = << >>
  /\ uCalls = 1

nonUnitVars == <<cbVars, vVars, ttVars, svcVars, cliVars, ioVars, srtVars, bpVars>>

\* the cache check finds every text: translationResults is returned
UnitAllCached ==
  /\ uPc = "call"
  /\ MissedPositions(uTexts, uFiles) = << >>
  /\ uResults' = [i \in 0..(Len(uTexts) - 1) |-> UnitGet(uFiles, uTexts[i + 1]).text]
  /\ uReturned' = [n \in DOMAIN uTexts |-> UnitGet(uFiles, uTexts[n]).text]
  /\ uToTranslate' = << >> /\ uIndexMap' = << >>
  /\ uKnown' = uFiles
  /\ uPc' = "returned"
  /\ UNCHANGED <<uTexts, uMaxBatch, uConcurrent, uEnabled, uFiles, uCalls>>
  /\ UNCHANGED <<nonUnitVars, pVars>>

\* the cache check leaves texts to translate: they are batched and handed
\* to translateBatchesParallel
UnitToPool ==
  /\ uPc = "call"
  /\ MissedPositions(uTexts, uFiles) # << >>
  /\ LET missed == MissedPositions(uTexts, uFiles)
         toTranslate == [n \in DOMAIN missed |-> uTexts[missed[n]]] IN
     /\ uResults' = [i \in {n - 1 : n \in DOMAIN uTexts \ {missed[m] : m \in DOMAIN missed}} |->
                       UnitGet(uFiles, uTexts[i + 1]).text]
     /\ uToTranslate' = toTranslate
     /\ uIndexMap' = [n \in DOMAIN missed |-> missed[n] - 1]
     /\ pBatches' = createBatches(toTranslate, uMaxBatch)
  /\ pConcurrent' = IF uConcurrent = 0 THEN 1 ELSE uConcurrent
  /\ pPc' = "call"
  /\ pCurrent' = 0 /\ pWorkers' = << >> /\ pResults' = << >> /\ pReturned' = << >>
  /\ pWriters' = << >> /\ pSentTexts' = {} /\ pSends' = << >>
  /\ uKnown' = uFiles
  /\ uReturned' = << >>
  /\ uPc' = "pool"
  /\ UNCHANGED <<uTexts, uMaxBatch, uConcurrent, uEnabled, uFiles, uCalls>>
  /\ UNCHANGED nonUnitVars

\* the pool has returned: with the cache on, the new translations are
\* stored and placed and translationResults is returned; with the cache
\* off, the new translations are returned
UnitFinish ==
  /\ uPc = "pool"
  /\ pPc = "returned"
  /\ LET stored == StoreLoop(1, pReturned, uToTranslate, uIndexMap,
                             [files |-> uFiles, results |-> uResults]) IN
     IF uEnabled
     THEN /\ uFiles' = stored.files
          /\ uResults' = stored.results
          /\ uReturned' = [n \in {m + 1 : m \in DOMAIN stored.results} |-> stored.results[n - 1]]
     ELSE /\ uReturned' = pReturned
          /\ UNCHANGED <<uFiles, uResults>>
  /\ uPc' = "returned"
  /\ UNCHANGED <<uTexts, uMaxBatch, uConcurrent, uEnabled, uToTranslate, uIndexMap, uKnown,
                 uCalls>>
  /\ UNCHANGED <<nonUnitVars, pVars>>

\* translateTexts is called again on the same service
UnitCallAgain ==
  /\ uPc = "returned"
  /\ uCalls < MaxUnitCalls
  /\ uCalls' = uCalls + 1
  /\ uTexts' \in SeqsUpTo(PoolTextPool, MaxPoolTexts)
  /\ uPc' = "call"
  /\ uResults' = << >> /\ uToTranslate' = << >> /\ uIndexMap' = << >> /\ uReturned' = << >>
  /\ pBatches' = << >> /\ pConcurrent' = 1 /\ pPc' = "idle" /\ pCurrent' = 0
  /\ pWorkers' = << >> /\ pResults' = << >> /\ pReturned' = << >> /\ pWriters' = << >>
  /\ pSentTexts' = {} /\ pSends' = << >>
  /\ UNCHANGED <<uMaxBatch, uConcurrent, uEnabled, uFiles, uKnown>>
  /\ UNCHANGED nonUnitVars

NextUnit ==
  \/ UnitAllCached
  \/ UnitToPool
  \/ UnitFinish
  \/ UnitCallAgain
  \/ PoolStart
  \/ PoolBatchReturns
  \/ PoolBatchThrows
  \/ PoolReturn

SpecUnit == InitUnit /\ [][NextUnit]_vars

\* C15 (as stated): with the cache on, a text for which an earlier call
\* stored a translation is not sent to the provider by a later call,
\* whatever the stored translation is.
C15_CachedTextNotSent ==
  uEnabled =>
    \A t \in pSentTexts :
      generateKey(t, TargetLanguage, SourceLanguage, UnitModel) \notin DOMAIN uKnown

\* C33: with the cache on, every position of the array translateTexts
\* returns is filled: a position whose text was found in the cache holds the
\* cached value, every other position holds a translation the provider
\* produced for the text at that position.
C33_EveryPositionFilled ==
  (uPc = "returned" /\ uEnabled) =>
    /\ DOMAIN uReturned = DOMAIN uTexts
    /\ \A n \in DOMAIN uTexts :
         LET cachedTranslation == get(uEnabled, uKnown, uTexts[n], TargetLanguage,
                                      SourceLanguage, UnitModel) IN
         IF IsCacheHit(cachedTranslation)
         THEN uReturned[n] = cachedTranslation.text
         ELSE uReturned[n] \in {TranslationOf(uTexts[n]), ""}

(***************************************************************************)
(* CacheService and the file system: a call of fs may throw                *)
(***************************************************************************)
IoKeys == {"k1", "k2"}
IoResponses == {"r1", "r2"}
IoNull == "null"
\* no file for the key, and a file whose content JSON.parse rejects
Absent == "absent"
Corrupt == "corrupt"

\* (mutant) a catch that lets the error go on to the caller
RethrowError(error) == Throw(error)

\* cacheService.ts 96-102: the catch of getApiResponse logs; the function
\* goes on to its last line
CatchReadError(error) == Return(IoNull)
\* cacheService.ts 118-124: the catch of setApiResponse logs
CatchWriteError(error) == Return("undefined")

\* cacheService.ts 39-53: the directory is created unless it exists; the
\* catch disables the cache
ensureCacheDirExists(dirExists, mkdirThrows) ==
  IF dirExists THEN [enabled |-> TRUE, dirExists |-> TRUE, failed |-> FALSE]
  ELSE IF mkdirThrows THEN [enabled |-> FALSE, dirExists |-> FALSE, failed |-> TRUE]
  ELSE [enabled |-> TRUE, dirExists |-> TRUE, failed |-> FALSE]

\* cacheService.ts 176-182 (and the constructor, 18-28): this.enabled is
\* set, the directory is made sure of when the cache is switched on
setEnabled(enabled, dirExists, mkdirThrows) ==
  IF enabled THEN ensureCacheDirExists(dirExists, mkdirThrows)
  ELSE [enabled |-> FALSE, dirExists |-> dirExists, failed |-> FALSE]

\* cacheService.ts 89-95: the try block of getApiResponse
ReadFile(files, key, readThrows) ==
  IF files[key] = Absent THEN Continue
  ELSE IF readThrows THEN Throw("EIO")
  ELSE IF files[key] = Corrupt THEN Throw("SyntaxError")
  ELSE Return(files[key])

\* cacheService.ts 83-103: getApiResponse on the file of a key
readApiResponse(enabled, files, key, readThrows) ==
  IF ~enabled THEN Return(IoNull)
  ELSE LET attempt == ReadFile(files, key, readThrows) IN
       IF attempt.kind = "return" THEN attempt
       ELSE IF attempt.kind = "throw" THEN CatchReadError(attempt.error)
       ELSE Return(IoNull)

\* cacheService.ts 110-125: setApiResponse on the file of a key; a write
\* that throws leaves the file as it was or leaves a truncated file
writeApiResponse(enabled, files, key, response, writeThrows, truncated) ==
  IF ~enabled THEN [files |-> files, outcome |-> Return("undefined")]
  ELSE IF writeThrows
  THEN [files |-> IF truncated THEN [files EXCEPT ![key] = Corrupt] ELSE files,
        outcome |-> CatchWriteError("EIO")]
  ELSE [files |-> [files EXCEPT ![key] = response], outcome |-> Return("undefined")]

LastCall(op, key, failed, before, outcome) ==
  [op |-> op, key |-> key, failed |-> failed, before |-> before, outcome |-> outcome]

\* a directory that may hold files of earlier runs, and no object yet
InitIo ==
  /\ cbIdle /\ vIdle /\ ttIdle /\ svcIdle /\ cliIdle /\ pIdle /\ uIdle
  /\ srtIdle /\ bpIdle
  /\ ioDirExists \in BOOLEAN
  /\ ioFiles \in [IoKeys -> {Absent, Corrupt, "r1"}]
  /\ ~ioDirExists => \A key \in IoKeys : ioFiles[key] = Absent
  /\ ioEnabled = FALSE
  /\ ioPc = "new"
  /\ ioLast = LastCall("none", "", FALSE, "", Return(""))

nonIoVars == <<cbVars, vVars, ttVars, svcVars, cliVars, pVars, uVars, srtVars, bpVars>>

\* cacheService.ts 18-28: new CacheService(enabled, cacheDir)
IoConstruct ==
  /\ ioPc = "new"
  /\ \E enabled \in BOOLEAN : \E mkdirThrows \in BOOLEAN :
       LET made == setEnabled(enabled, ioDirExists, mkdirThrows) IN
       /\ ioEnabled' = made.enabled
       /\ ioDirExists' = made.dirExists
       /\ ioLast' = LastCall("construct", "", made.failed, "", Return("undefined"))
  /\ ioPc' = "ready"
  /\ UNCHANGED ioFiles
  /\ UNCHANGED nonIoVars

\* cacheService.ts 176-182 and translationService.ts 90-92: setEnabled
IoSetEnabled ==
  /\ ioPc = "ready"
  /\ \E enabled \in BOOLEAN : \E mkdirThrows \in BOOLEAN :
       LET made == setEnabled(enabled, ioDirExists, mkdirThrows) IN
       /\ ioEnabled' = made.enabled
       /\ ioDirExists' = made.dirExists
       /\ ioLast' = LastCall("setEnabled", "", made.failed, "", Return("undefined"))
  /\ UNCHANGED <<ioFiles, ioPc>>
  /\ UNCHANGED nonIoVars

\* cacheService.ts 83-103: a getApiResponse call
IoGet ==
  /\ ioPc = "ready"
  /\ \E key \in IoKeys : \E readThrows \in BOOLEAN :
       ioLast' = LastCall("get", key,
                          ioEnabled /\ ReadFile(ioFiles, key, readThrows).kind = "throw",
                          ioFiles[key],
                          readApiResponse(ioEnabled, ioFiles, key, readThrows))
  /\ UNCHANGED <<ioEnabled, ioDirExists, ioFiles, ioPc>>
  /\ UNCHANGED nonIoVars

\* cacheService.ts 110-125: a setApiResponse call
IoSet ==
  /\ ioPc = "ready"
  /\ \E key \in IoKeys : \E response \in IoResponses :
     \E writeThrows \in BOOLEAN : \E truncated \in BOOLEAN :
       LET written == writeApiResponse(ioEnabled, ioFiles, key, response,
                                       writeThrows, truncated) IN
       /\ ioFiles' = written.files
       /\ ioLast' = LastCall("set", key, ioEnabled /\ writeThrows, ioFiles[key],
                             written.outcome)
  /\ UNCHANGED <<ioEnabled, ioDirExists, ioPc>>
  /\ UNCHANGED nonIoVars

NextIo ==
  \/ IoConstruct
  \/ IoSetEnabled
  \/ IoGet
  \/ IoSet

SpecIo == InitIo /\ [][NextIo]_vars

\* C22: a cache I/O failure is never fatal: no call on the cache ends with
\* an error; a getApiResponse whose read failed returned null; a
\* setApiResponse whose write failed left no entry written by it; a failure
\* to create the cache directory left the cache disabled.
C22_CacheFailureNotFatal ==
  /\ ioLast.outcome.kind = "return"
  /\ (ioLast.op = "get" /\ ioLast.failed) => ioLast.outcome.value = IoNull
  /\ (ioLast.op = "set" /\ ioLast.failed) =>
       ioFiles[ioLast.key] \in {ioLast.before, Corrupt}
  /\ (ioLast.op \in {"construct", "setEnabled"} /\ ioLast.failed) => ~ioEnabled

\* with the cache on, reading the intact file of a key failed
C22_Witness ==
  /\ ioLast.op = "get"
  /\ ioLast.failed
  /\ ioEnabled
  /\ ioLast.before \in IoResponses

(***************************************************************************)
(* SrtService.createTranslatedSubtitles                                    *)
(***************************************************************************)
\* most subtitles handed to createTranslatedSubtitles
MaxCues == 2

CueIds == {1, 2}
CueStarts == {0, 5}
CueEnds == {9}
CueTexts == {"a", "b"}
TranslatedTextPool == {"", "T", "a"}
CueItems == [id : CueIds, start : CueStarts, end : CueEnds, text : CueTexts]

\* (mutant) the original text is left in place
TranslatedItemUntranslated(subtitle, translatedText) ==
  [id |-> subtitle.id, start |-> subtitle.start, end |-> subtitle.end,
   originalText |-> subtitle.text, text |-> subtitle.text]

\* part_011 99-103: { ...subtitle, originalText: subtitle.text,
\* text: translatedTexts[index] }
TranslatedItem(subtitle, translatedText) ==
  [id |-> subtitle.id, start |-> subtitle.start, end |-> subtitle.end,
   originalText |-> subtitle.text, text |-> translatedText]

\* part_011 91-104
createTranslatedSubtitles(originalSubtitles, translatedTexts) ==
  IF Len(originalSubtitles) # Len(translatedTexts)
  THEN Throw("Number of original subtitles and translated texts do not match")
  ELSE Return([index \in DOMAIN originalSubtitles |->
                 TranslatedItem(originalSubtitles[index], translatedTexts[index])])

InitCreate ==
  /\ cbIdle /\ vIdle /\ ttIdle /\ svcIdle /\ cliIdle /\ pIdle /\ uIdle /\ ioIdle /\ bpIdle
  /\ srtArgs \in [originalSubtitles : SeqsUpTo(CueItems, MaxCues),
                  translatedTexts : SeqsUpTo(TranslatedTextPool, MaxCues + 1)]
  /\ srtPc = "call"
  /\ srtResult = << >>

nonSrtVars == <<cbVars, vVars, ttVars, svcVars, cliVars, pVars, uVars, ioVars, bpVars>>

\* part_011 91-104: one call of createTranslatedSubtitles
CallCreateTranslatedSubtitles ==
  /\ srtPc = "call"
  /\ srtResult' = createTranslatedSubtitles(srtArgs.originalSubtitles, srtArgs.translatedTexts)
  /\ srtPc' = "done"
  /\ UNCHANGED srtArgs
  /\ UNCHANGED nonSrtVars

NextCreate == CallCreateTranslatedSubtitles

SpecCreate == InitCreate /\ [][NextCreate]_vars

\* C32: createTranslatedSubtitles throws when the number of translated texts
\* differs from the number of original subtitles; otherwise output item i
\* keeps the id, start and end of original item i, has originalText equal to
\* the original text and text equal to translatedTexts[i].
C32_ItemsPairedOrThrown ==
  srtPc = "done" =>
    LET originalSubtitles == srtArgs.originalSubtitles
        translatedTexts == srtArgs.translatedTexts IN
    IF Len(originalSubtitles) # Len(translatedTexts)
    THEN srtResult.kind = "throw"
    ELSE /\ srtResult.kind = "return"
         /\ Len(srtResult.value) = Len(originalSubtitles)
         /\ \A i \in DOMAIN originalSubtitles :
              /\ srtResult.value[i].id = originalSubtitles[i].id
              /\ srtResult.value[i].start = originalSubtitles[i].start
              /\ srtResult.value[i].end = originalSubtitles[i].end
              /\ srtResult.value[i].originalText = originalSubtitles[i].text
              /\ srtResult.value[i].text = translatedTexts[i]

\* two subtitles with different translations, none equal to its original
C32_Witness ==
  /\ srtPc = "done"
  /\ srtResult.kind = "return"
  /\ Len(srtResult.value) = 2
  /\ srtResult.value[1].text # srtResult.value[2].text
  /\ \A i \in 1..2 : srtResult.value[i].text # srtResult.value[i].originalText

(***************************************************************************)
(* Srt.parseSrt                                                            *)
(***************************************************************************)
\* most subtitle blocks in a file
MaxBlocks == 2

NewLine == "\n"
IndexPool == {1, 2}
TimePool == {"t1", "t2"}
TextLinePool == {"x", "y"}
\* what follows the last text line of the file: nothing, a line break, or a
\* line break and a blank line
Endings == {"none", "newline", "blank"}
Blocks == [index : IndexPool, time : TimePool,
           text : [1..1 -> TextLinePool] \cup [1..2 -> TextLinePool]]

\* the decimal numeral of an index
IndexLine(n) == <<"1", "2", "3">>[n]

\* the file content as its lines and line breaks
RECURSIVE JoinLines(_)
JoinLines(lines) ==
  IF Len(lines) = 0 THEN << >>
  ELSE IF Len(lines) = 1 THEN <<lines[1]>>
  ELSE <<lines[1], NewLine>> \o JoinLines(Tail(lines))

BlockContent(block) == JoinLines(<<IndexLine(block.index), block.time>> \o block.text)

RECURSIVE FileContent(_, _)
FileContent(blocks, ending) ==
  IF Len(blocks) = 0
  THEN IF ending = "none" THEN << >>
       ELSE IF ending = "newline" THEN <<NewLine>> ELSE <<NewLine, NewLine>>
  ELSE IF Len(blocks) = 1
  THEN BlockContent(blocks[1]) \o FileContent(<< >>, ending)
  ELSE BlockContent(blocks[1]) \o <<NewLine, NewLine>> \o FileContent(Tail(blocks), ending)

\* srt.ts 18: srtContent.split('\n')
RECURSIVE SplitLines(_, _, _)
SplitLines(srtContent, n, current) ==
  IF n > Len(srtContent) THEN <<current>>
  ELSE IF srtContent[n] = NewLine THEN <<current>> \o SplitLines(srtContent, n + 1, "")
  ELSE SplitLines(srtContent, n + 1, current \o srtContent[n])

\* srt.ts 28: line.trim() === ''
IsBlankLine(line) == line \in {"", " "}

\* srt.ts 45: parseInt(line, 10) of a decimal numeral
ParseInt(line) == CHOOSE n \in 1..3 : IndexLine(n) = line

\* srt.ts 34: the first seven hex digits of the SHA-256 of the time line
HashOf(time) == <<"sha256", time>>

\* srt.ts 25-59: the loop over the lines from line i on
RECURSIVE ParseLoop(_, _, _, _, _, _, _)
ParseLoop(lines, i, index, time, text, pos, subtitles) ==
  IF i > Len(lines) THEN subtitles
  ELSE IF IsBlankLine(lines[i])
  THEN ParseLoop(lines, i + 1, -1, "", << >>, 0,
                 IF index # -1
                 THEN Append(subtitles, [index |-> index, time |-> time, text |-> text,
                                         hash |-> HashOf(time)])
                 ELSE subtitles)
  ELSE IF pos = 0 THEN ParseLoop(lines, i + 1, ParseInt(lines[i]), time, text, 1, subtitles)
  ELSE IF pos = 1 THEN ParseLoop(lines, i + 1, index, lines[i], text, 2, subtitles)
  ELSE ParseLoop(lines, i + 1, index, time, Append(text, lines[i]), pos, subtitles)

\* srt.ts 17-62
parseSrt(srtContent) == ParseLoop(SplitLines(srtContent, 1, ""), 1, -1, "", << >>, 0, << >>)

InitParse ==
  /\ cbIdle /\ vIdle /\ ttIdle /\ svcIdle /\ cliIdle /\ pIdle /\ uIdle /\ ioIdle /\ bpIdle
  /\ \E blocks \in SeqsUpTo(Blocks, MaxBlocks) : \E ending \in Endings :
       srtArgs = [blocks |-> blocks, ending |-> ending,
                  srtContent |-> FileContent(blocks, ending)]
  /\ srtPc = "call"
  /\ srtResult = << >>

\* srt.ts 13-15: new Srt(srtContent)
CallParseSrt ==
  /\ srtPc = "call"
  /\ srtResult' = Return(parseSrt(srtArgs.srtContent))
  /\ srtPc' = "done"
  /\ UNCHANGED srtArgs
  /\ UNCHANGED nonSrtVars

NextParse == CallParseSrt

SpecParse == InitParse /\ [][NextParse]_vars

\* C38: parseSrt preserves every subtitle block of the input: each block of
\* an index line, a time line and one or more text lines yields exactly one
\* parsed subtitle with that index, time and text lines, in input order,
\* whether or not the last block is followed by a blank line.
C38_EveryBlockParsed ==
  srtPc = "done" =>
    /\ Len(srtResult.value) = Len(srtArgs.blocks)
    /\ \A n \in DOMAIN srtArgs.blocks :
         /\ srtResult.value[n].index = srtArgs.blocks[n].index
         /\ srtResult.value[n].time = srtArgs.blocks[n].time
         /\ srtResult.value[n].text = srtArgs.blocks[n].text

(***************************************************************************)
(* Properties of TranslationService.translateTexts                         *)
(***************************************************************************)
BatchIndices == 0..(Len(batches) - 1)
\* position of a batch index in settleOrder
SettledAt(batchIndex) == CHOOSE n \in DOMAIN settleOrder : settleOrder[n] = batchIndex
IsTranslateRequest(request) == request.messages[2].content.template = "translateBatch"
TranslateRequestsSent == {request \in sentRequests : IsTranslateRequest(request)}
\* the glossary as it stands when extraction is over
FinalGlossary == IF terminologyOption THEN terminology ELSE << >>

\* C1: the returned array is the batches' results concatenated in ascending
\* batch index, whatever the order in which the batches' calls ended.
C1_AscendingBatchOrder ==
  pc = "returned" =>
    allTranslations = Flat([n \in 1..Len(batches) |-> batchOutcome[n - 1].translations])

\* two batches sent together, the later one answered first, with results
\* that differ
C1_Witness ==
  /\ pc = "returned"
  /\ \E b \in BatchIndices :
       /\ b + 1 \in BatchIndices
       /\ SettledAt(b + 1) < SettledAt(b)
       /\ sentCount[b] = 1 /\ sentCount[b + 1] = 1
       /\ batchOutcome[b].translations # batchOutcome[b + 1].translations

\* C2: whatever the outcome of each batch, the returned array has one
\* element per input text.
C2_LengthPreserved ==
  pc = "returned" => Len(allTranslations) = Len(texts)

\* a job whose batches ended in a thrown call, a rejected response and a
\* cache hit
C2_Witness ==
  /\ pc = "returned"
  /\ Len(texts) = MaxJobTexts
  /\ \E b1, b2, b3 \in BatchIndices :
       /\ batchOutcome[b1].kind \in {"failed", "noContent"}
       /\ batchOutcome[b2].kind = "fellBack"
       /\ batchOutcome[b3].kind \in {"cached", "cachedFellBack"}

\* C6 (as stated): a response served from the request cache was stored for
\* a request with the same model, system instruction and user content as
\* the request that was looked up.
C6_ServedForSameRequest ==
  \A b \in DOMAIN servedFrom :
    servedFrom[b] \in {LookupRequest(model, systemPrompt, BatchAt(b)),
                       BatchRequest(model, systemPrompt, BatchAt(b))}

\* C7: no more than parallelRequests batches are outstanding, they all
\* belong to the current group, and every batch of earlier groups has
\* settled.
C7_BoundedOutstanding ==
  /\ Cardinality(outstanding) <= parallelRequests
  /\ outstanding \subseteq loopI..(loopI + parallelRequests - 1)
  /\ \A b \in DOMAIN sentCount :
       sentCount[b] > 0 => b < loopI + parallelRequests
  /\ pc \in {"dispatch", "group"} =>
       \A b \in BatchIndices : b < loopI => b \in DOMAIN batchOutcome

\* a full second group is outstanding after the first has settled
C7_Witness ==
  /\ pc = "group"
  /\ loopI > 0
  /\ concurrentRequests = MaxConcurrent
  /\ Cardinality(outstanding) = parallelRequests

CliTranslateRequestsSent == {request \in cliSent : request.kind = "translate"}

\* C8: in either program, while terminology extraction is under way no
\* translation request has been sent, and every translation request carries
\* the instruction built from the glossary extraction ended with; in
\* processSubtitles the glossary of every batch has been merged by then.
C8_ExtractionBeforeTranslation ==
  /\ pc \in {"call", "extract", "extracting", "prompt"} => TranslateRequestsSent = {}
  /\ \A request \in TranslateRequestsSent :
       request.messages[1].content =
         [template |-> "translate", source |-> SourceLanguage, target |-> TargetLanguage,
          glossary |-> FinalGlossary]
  /\ cliPc \in {"call", "extractDispatch", "extractGroup", "exited"} =>
       CliTranslateRequestsSent = {}
  /\ \A request \in CliTranslateRequestsSent :
       /\ cliExtracted = 0..(Len(cliBatches) - 1)
       /\ request.system =
            [template |-> "systemPrompt", source |-> SourceLanguage,
             target |-> TargetLanguage, glossary |-> cliGlossary]

\* two batches were sent after an extraction that found a term
C8_Witness ==
  /\ terminologyOption
  /\ terminology # << >>
  /\ Cardinality(TranslateRequestsSent) >= 2

\* processSubtitles sent two batches, one of them twice, after two
\* extraction responses were merged into a glossary of two terms
C8_WitnessCli ==
  /\ Cardinality(Keys(cliGlossary)) = 2
  /\ Cardinality(cliExtracted) >= 2
  /\ Cardinality({request.batch : request \in CliTranslateRequestsSent}) >= 2
  /\ \E b \in DOMAIN cliCalls : cliCalls[b].retryCount > 0

ExtractionFailed == extractOutcome \in {"threw", "noContent", "noTerms"}

\* C16 (as stated): after a failed extraction every batch of the job is
\* sent to the provider.
C16_EveryBatchSent ==
  (ExtractionFailed /\ pc = "returned") =>
    \A b \in BatchIndices : sentCount[b] >= 1

\* C16 (amended): after a failed extraction translateTexts does not abort;
\* the glossary and the glossary of the instruction are empty, every batch
\* is either sent to the provider or served from the request cache, and the
\* call returns one result per text.
C16_ExtractionFailureTolerated ==
  /\ pc # "aborted"
  /\ ExtractionFailed =>
       /\ terminology = << >>
       /\ pc \in {"dispatch", "group", "returned"} => systemPrompt.glossary = << >>
       /\ \A request \in TranslateRequestsSent : request.messages[1].content.glossary = << >>
       /\ pc = "returned" =>
            /\ \A b \in BatchIndices : sentCount[b] >= 1 \/ b \in DOMAIN servedFrom
            /\ Len(allTranslations) = Len(texts)

\* the extraction call threw, and the job returned after sending two batches
C16_Witness ==
  /\ extractOutcome = "threw"
  /\ pc = "returned"
  /\ Cardinality({b \in BatchIndices : sentCount[b] >= 1}) >= 2

\* C28: the batch composer of processSubtitles never emits an empty batch:
\* every element of batches holds at least one subtitle.
C28_NoEmptyBatch ==
  \A n \in DOMAIN cliBatches : Len(cliBatches[n]) >= 1

\* the extraction results that returned a term, by their place in the order
\* of merging
\* the text written to the output file for a subtitle
WrittenFor(subtitle) ==
  cliOutput[CHOOSE n \in DOMAIN cliSubtitles : cliSubtitles[n].hash = subtitle.hash]

\* C31: when translateText throws for a batch of processSubtitles, every
\* other batch is still translated and the output file is written; in it
\* each subtitle of a failed batch keeps its source text and each subtitle
\* of a successful batch carries the translation its call returned.
C31_FailedBatchKeepsSource ==
  (cliPc = "written" /\ \E b \in DOMAIN cliReturned : cliReturned[b].threw) =>
    /\ DOMAIN cliReturned = 0..(Len(cliBatches) - 1)
    /\ \A b \in DOMAIN cliReturned : \A n \in DOMAIN cliBatches[b + 1] :
         LET subtitle == cliBatches[b + 1][n] IN
         IF cliReturned[b].threw
         THEN WrittenFor(subtitle) = subtitle.text
         ELSE WrittenFor(subtitle) = cliReturned[b].map[subtitle.hash]

MergesOf(term) == {n \in DOMAIN cliMerged : term \in Keys(cliMerged[n].result)}
LastMergeOf(term) == CHOOSE n \in MergesOf(term) : \A m \in MergesOf(term) : m <= n
\* the extraction loop of lines 95-106 has been left
ExtractionFinished == cliPc \in {"translateDispatch", "translateGroup", "written"}
\* the extraction loop has run to its end and the glossary is final
ExtractionLoopDone == cliPc = "extractDispatch" /\ cliI >= Len(cliBatches)

\* C18: in processSubtitles, however the concurrent per-batch extractions
\* interleave, the result of every batch is merged exactly once, the key set
\* of the final glossary is the union of the key sets returned for all
\* batches, and a term returned by several batches has the value of the
\* extraction merged last.
C18_GlossaryMergesEveryResult ==
  /\ ~ExtractionFinished =>
       /\ Keys(cliGlossary) = UNION {Keys(cliMerged[n].result) : n \in DOMAIN cliMerged}
       /\ \A term \in Keys(cliGlossary) :
            cliGlossary[term] = cliMerged[LastMergeOf(term)].result[term]
       /\ \A m, n \in DOMAIN cliMerged : cliMerged[m].batch = cliMerged[n].batch => m = n
  /\ ExtractionLoopDone =>
       {cliMerged[n].batch : n \in DOMAIN cliMerged} = 0..(Len(cliBatches) - 1)

\* the extraction loop ended after two concurrently running extractions
\* returned different values for one term, the one of the later batch first,
\* and another term came from the extraction merged first only
C18_Witness ==
  /\ ExtractionLoopDone
  /\ cliConcurrency >= 2
  /\ \E m, n \in DOMAIN cliMerged :
       /\ m < n
       /\ cliMerged[m].batch > cliMerged[n].batch
       /\ {cliMerged[m].batch, cliMerged[n].batch} \subseteq 0..(cliConcurrency - 1)
       /\ "Tom" \in Keys(cliMerged[m].result) \cap Keys(cliMerged[n].result)
       /\ cliMerged[m].result["Tom"] # cliMerged[n].result["Tom"]
       /\ "Ann" \in Keys(cliMerged[m].result) \ Keys(cliMerged[n].result)
       /\ "Ann" \in Keys(cliGlossary)

\* the states in which the translation instruction of the job has been built
PromptBuilt == pc \in {"dispatch", "group", "returned"}

\* C17: every glossary entry the caller supplied through setTerminology before
\* a translateTexts call with terminology enabled is, with its supplied
\* translation, in the glossary embedded in the translation instruction,
\* whatever the extraction returned.
C17_SeedEntriesSurvive ==
  (PromptBuilt /\ terminologyOption) =>
    \A n \in DOMAIN seed :
      \E m \in DOMAIN systemPrompt.glossary : systemPrompt.glossary[m] = seed[n]

\* C19: after terminology extraction no two entries of the terminology list
\* rendered into the translation instruction have the same original term.
C19_UniqueOriginals ==
  (PromptBuilt /\ terminologyOption) =>
    \A m, n \in DOMAIN systemPrompt.glossary :
      systemPrompt.glossary[m].original = systemPrompt.glossary[n].original => m = n

\* C20: a request-cache entry is never mutated: once a value is stored for a
\* cache key, no later step of this job or of a later job removes it or
\* replaces it by another value.
C20_EntryNeverReplaced ==
  [][\A key \in DOMAIN cacheFiles :
       key \in DOMAIN cacheFiles' /\ cacheFiles'[key] = cacheFiles[key]]_vars

\* C21: only successes are persisted: every response stored in the request
\* cache for a translateBatch request has content, and that content passes
\* the validation against the batch of the request.
C21_OnlySuccessesStored ==
  \A key \in DOMAIN cacheFiles :
    IsTranslateRequest(cacheOrigin[key]) =>
      /\ HasContent(cacheFiles[key])
      /\ ~processResponseContent(ContentOf(cacheFiles[key]),
                                 cacheOrigin[key].messages[2].content.payload).fellBack

\* what a batch contributes to the returned array
ContributionOf(batchIndex) ==
  IF batchOutcome[batchIndex].kind \in {"failed", "noContent"}
  THEN [n \in 1..Len(BatchAt(batchIndex)) |-> JStr("")]
  ELSE batchOutcome[batchIndex].translations

\* C23: a batch whose provider call threw or returned empty content
\* contributes one empty string per unit; every other batch has been
\* processed all the same and its result is in the returned array.
C23_FailedBatchSubstituted ==
  pc = "returned" =>
    /\ \A b \in BatchIndices :
         /\ b \in DOMAIN batchOutcome
         /\ sentCount[b] >= 1 \/ b \in DOMAIN servedFrom
    /\ allTranslations = Flat([n \in 1..Len(batches) |-> ContributionOf(n - 1)])

\* a job in which the call of one batch threw, a later batch was translated
\* after that, and another batch was answered without content
C23_Witness ==
  /\ pc = "returned"
  /\ \E b1, b2, b3 \in BatchIndices :
       /\ batchOutcome[b1].kind = "failed"
       /\ batchOutcome[b2].kind = "translated"
       /\ batchOutcome[b3].kind = "noContent"
       /\ b1 < b2
       /\ SettledAt(b1) < SettledAt(b2)

\* C25 (as stated): when every provider call of a run with the request cache
\* on returned a response, with or without content, the repeated run sends
\* no request.
C25_RepeatSendsNothing ==
  (cacheEnabled /\ earlier \in {"answered", "empty"}) => sentRequests = {}

\* C25: when every provider call of a run with the request cache on
\* returned a response with content, the repeated run sends no request.
C25_RepeatSendsNothingAfterContent ==
  (cacheEnabled /\ earlier = "answered") => sentRequests = {}

\* the repeated run of a job with terminology and two batches has returned
C25_Witness ==
  /\ cacheEnabled /\ earlier = "answered"
  /\ pc = "returned"
  /\ terminologyOption
  /\ Len(batches) >= 2
  /\ cacheHits >= 2

\* C34: during a translateTexts call completedBatches is incremented exactly
\* once per batch on every path (cache hit, provider success, provider
\* failure): it counts the batches whose callback has ended, never exceeds
\* totalBatches, and equals totalBatches when the call returns.
C34_ProgressOncePerBatch ==
  /\ completedBatches = Len(settleOrder)
  /\ completedBatches = Cardinality(DOMAIN batchOutcome)
  /\ completedBatches <= totalBatches
  /\ pc = "returned" => completedBatches = totalBatches /\ totalBatches = Len(batches)

\* a call has returned whose batches ended on all three paths
C34_Witness ==
  /\ pc = "returned"
  /\ completedBatches = 3
  /\ \E a, b, c \in DOMAIN batchOutcome :
       /\ batchOutcome[a].kind = "cached"
       /\ batchOutcome[b].kind = "translated"
       /\ batchOutcome[c].kind = "failed"

\* C39: if every provider call eventually returns or throws, translateTexts
\* eventually returns; it makes at most one provider call per translation
\* batch and at most one terminology extraction call, and when it has
\* returned the progress timer started at its beginning has been cleared.
BoundedCallsTimerCleared ==
  /\ \A b \in DOMAIN sentCount : sentCount[b] <= 1
  /\ extractSends <= 1
  /\ pc = "returned" => ~progressUpdateInterval

MaxFiles == 3

nonFileVars == <<cbVars, vVars, ttVars, svcVars, cliVars, pVars, uVars, ioVars, srtVars>>

InputFiles == 1..bpFiles

\* the awaits of run at which an error is thrown into its catch:
\* 208-210 input file not found, 243 read or parse error, 292-310 write error
ThrowingAwaits == {"fileExists", "parseSrtFile", "saveSrtFile"}

InitFiles ==
  /\ cbIdle /\ vIdle /\ ttIdle /\ svcIdle /\ cliIdle /\ pIdle /\ uIdle /\ ioIdle
  /\ srtIdle
  /\ bpFiles \in 1..MaxFiles
  /\ bpMain = "map"
  /\ bpService = 0
  /\ bpPc = << >>
  /\ bpCreated = << >>
  /\ bpUsed = << >>
  /\ bpProcessed = 0
  /\ bpExited = FALSE

\* lines 380-386, 185-208: inputFiles.map calls run for each file in turn;
\* each call runs to its first await, after it has stored a new
\* TranslationService in this.translationService (lines 203-209)
BatchProcessMap ==
  /\ bpMain = "map" /\ ~bpExited
  /\ bpCreated' = [input \in InputFiles |-> input]
  /\ bpService' = bpFiles
  /\ bpPc' = [input \in InputFiles |-> "fileExists"]
  /\ bpMain' = "awaiting"
  /\ UNCHANGED <<bpFiles, bpUsed, bpProcessed, bpExited>>
  /\ UNCHANGED nonFileVars

\* lines 211-226: the input file exists; the output directory is awaited
RunFileExists(input) ==
  /\ bpMain = "awaiting" /\ ~bpExited
  /\ bpPc[input] = "fileExists"
  /\ bpPc' = [bpPc EXCEPT ![input] = "ensureDirectoryExists"]
  /\ UNCHANGED <<bpFiles, bpMain, bpService, bpCreated, bpUsed, bpProcessed, bpExited>>
  /\ UNCHANGED nonFileVars

\* lines 228-243: the file is read and parsed
RunDirectoryEnsured(input) ==
  /\ bpMain = "awaiting" /\ ~bpExited
  /\ bpPc[input] = "ensureDirectoryExists"
  /\ bpPc' = [bpPc EXCEPT ![input] = "parseSrtFile"]
  /\ UNCHANGED <<bpFiles, bpMain, bpService, bpCreated, bpUsed, bpProcessed, bpExited>>
  /\ UNCHANGED nonFileVars

\* lines 244-278: translateTexts of this.translationService is called
RunParsed(input) ==
  /\ bpMain = "awaiting" /\ ~bpExited
  /\ bpPc[input] = "parseSrtFile"
  /\ bpUsed' = [f \in DOMAIN bpUsed \cup {input} |->
                  IF f = input
                  THEN [translateTexts |-> bpService, getCacheHitInfo |-> 0]
                  ELSE bpUsed[f]]
  /\ bpPc' = [bpPc EXCEPT ![input] = "translateTexts"]
  /\ UNCHANGED <<bpFiles, bpMain, bpService, bpCreated, bpProcessed, bpExited>>
  /\ UNCHANGED nonFileVars

\* lines 280-310: the counters of this.translationService are reported and
\* the translated file is written
RunTranslated(input) ==
  /\ bpMain = "awaiting" /\ ~bpExited
  /\ bpPc[input] = "translateTexts"
  /\ bpUsed' = [bpUsed EXCEPT ![input].getCacheHitInfo = bpService]
  /\ bpPc' = [bpPc EXCEPT ![input] = "saveSrtFile"]
  /\ UNCHANGED <<bpFiles, bpMain, bpService, bpCreated, bpProcessed, bpExited>>
  /\ UNCHANGED nonFileVars

\* lines 311-337: the glossary is printed and run's promise resolves
RunSaved(input) ==
  /\ bpMain = "awaiting" /\ ~bpExited
  /\ bpPc[input] = "saveSrtFile"
  /\ bpPc' = [bpPc EXCEPT ![input] = "resolved"]
  /\ UNCHANGED <<bpFiles, bpMain, bpService, bpCreated, bpUsed, bpProcessed, bpExited>>
  /\ UNCHANGED nonFileVars

\* an await of run rejects or line 209 throws; the catch of run (338-346)
\* logs the error and calls process.exit(1)
RunThrows(input) ==
  /\ bpMain = "awaiting" /\ ~bpExited
  /\ bpPc[input] \in ThrowingAwaits
  /\ bpPc' = [bpPc EXCEPT ![input] = "failed"]
  /\ bpExited' = TRUE
  /\ UNCHANGED <<bpFiles, bpMain, bpService, bpCreated, bpUsed, bpProcessed>>
  /\ UNCHANGED nonFileVars

\* lines 387-390: the callback chained to run's promise counts the file
\* (run catches every error itself, so the .catch of 391-399 has no caller)
RunThen(input) ==
  /\ bpMain = "awaiting" /\ ~bpExited
  /\ bpPc[input] = "resolved"
  /\ bpPc' = [bpPc EXCEPT ![input] = "counted"]
  /\ bpProcessed' = bpProcessed + 1
  /\ UNCHANGED <<bpFiles, bpMain, bpService, bpCreated, bpUsed, bpExited>>
  /\ UNCHANGED nonFileVars

\* lines 403-410: Promise.all resolves
BatchProcessCompleted ==
  /\ bpMain = "awaiting" /\ ~bpExited
  /\ \A input \in InputFiles : bpPc[input] = "counted"
  /\ bpMain' = "completed"
  /\ UNCHANGED <<bpFiles, bpService, bpPc, bpCreated, bpUsed, bpProcessed, bpExited>>
  /\ UNCHANGED nonFileVars

NextFiles ==
  \/ BatchProcessMap
  \/ \E input \in InputFiles : RunFileExists(input)
  \/ \E input \in InputFiles : RunDirectoryEnsured(input)
  \/ \E input \in InputFiles : RunParsed(input)
  \/ \E input \in InputFiles : RunTranslated(input)
  \/ \E input \in InputFiles : RunSaved(input)
  \/ \E input \in InputFiles : RunThrows(input)
  \/ \E input \in InputFiles : RunThen(input)
  \/ BatchProcessCompleted

SpecFiles == InitFiles /\ [][NextFiles]_vars

\* C35: a failure while processing one input file does not stop the others:
\* the process goes on, the failed file is counted as processed and the
\* other files still run, so that a completed batchProcess has counted
\* every file.
C35_FailureDoesNotStopOthers ==
  (\E input \in DOMAIN bpPc : bpPc[input] = "failed") =>
    /\ ~bpExited
    /\ bpMain = "completed" => bpProcessed = bpFiles

\* C36: each file is translated, and its counters are reported, by the
\* TranslationService instance that its own run call created.
C36_OwnServicePerFile ==
  \A input \in DOMAIN bpUsed :
    /\ bpUsed[input].translateTexts = bpCreated[input]
    /\ bpUsed[input].getCacheHitInfo \in {0, bpCreated[input]}

=============================================================================
